---- MODULE Spec2Model ----
(***************************************************************************)
(* Combat and state-machine core of Pixel-Runner.                          *)
(*                                                                         *)
(*   combat_system.py  AttackConfig / AttackState (frame-based hits)       *)
(*   player.py         Player (priority state machine, i-frames)           *)
(*   skeleton.py       Skeleton (reactive melee AI, one hit per attack)    *)
(*   game_state.py     GameState.update (one tick, two combat passes)      *)
(*                                                                         *)
(* Units.  Damage, knockback and skeleton health are in hundredths         *)
(* (7.5 -> 750).                                                           *)
(* Animation indices and speeds are in hundredths of a frame (0.24 -> 24). *)
(* Velocities are in tenths of a pixel per tick (0.8 -> 8, 3.4 -> 34).     *)
(* Time is in 1/6000 s, so one tick (dt = 1/60 s) is 100.                  *)
(***************************************************************************)
EXTENDS Integers, Sequences, FiniteSets, TLC

VARIABLES
    attack_state,   \* a stand-alone AttackState driven through its API
    player,         \* the Player instance (record of its fields)
    op,             \* name of the last operation that was called
    arg,            \* its argument (target id, amount, frame), 0 if none
    ret,            \* its return value ("none" for procedures)
    true_count,     \* per target: try_register_hit = True in this sequence
    held,           \* per target: try_register_hit = True since
                    \* current_frame last changed its value
    dup_hit,        \* some target got True twice while current_frame held
                    \* one value
    dealt,          \* per target: damage of the registered hits, summed
    maxed_before,   \* the targets that had reached max_hits_per_target in
                    \* the sequence before the current one (kept in
                    \* "rematch" runs only)
    hits_taken,     \* take_damage calls that succeeded since construction/reset
    since_hit,      \* time since the last successful take_damage (-1: none
                    \* since construction/reset)
    grace,          \* time since the last HURT completed, the completing
                    \* tick included (-1: HURT not yet completed since the
                    \* last successful take_damage)
    air_jumps,      \* jumps started off the ground since the last landing
    scenario,       \* which callers drive the player in this run
    game,           \* the GameState instance without its player
    spawned,        \* skeletons spawned since construction
    thrust_hits,    \* per skeleton: hits a thrust registered on it
    smash_hits,     \* per skeleton: hits a smash registered on it
    hit_due,        \* per skeleton: at the start of the last enemy pass it
                    \* was in ATTACK on a hit frame it had not yet used,
                    \* overlapping the player
    invincible_at_pass, \* player.is_invincible at the start of that pass
    due_at_start,   \* per skeleton: at the start of the last combat
                    \* resolution it was in ATTACK on a hit frame it had
                    \* not yet used, overlapping a player who was neither
                    \* dead nor invincible
    deals,          \* should_deal_damage() = True since the last _begin_attack
    damages,        \* take_damage calls the skeleton made succeed since the
                    \* last _begin_attack
    ambient,        \* a scripted ambient enemy of the story screen (Bat,
                    \* Goblin or GreenMonster instance)
    new_config,     \* the AttackConfig the latest AttackConfig(...) call
                    \* that returned has constructed
    manager         \* a StateManager and the callbacks its states got

vars == <<attack_state, player, op, arg, ret, true_count, held, dup_hit, dealt,
          maxed_before,
          hits_taken, since_hit, grace, air_jumps, scenario,
          game, spawned, thrust_hits, smash_hits, hit_due, invincible_at_pass,
          due_at_start, deals, damages, ambient, new_config, manager>>

----------------------------------------------------------------------------
(* Bounds of the exploration *)

Targets == {1, 2}            \* entity ids handed to try_register_hit
MaxUpdateFrame == 12         \* update(frame) is called with 0..MaxUpdateFrame
MaxHitFrame == 2             \* generic configs pick hit_frames in 1..MaxHitFrame
MaxHitsPerTarget == 2        \* ... max_hits_per_target in 1..MaxHitsPerTarget
MaxHitStop == 1              \* ... hit_stop_frames in 0..MaxHitStop
MaxHitsTaken == 2            \* take_damage succeeds at most this often per life
MaxAirJumps == 1             \* jumps started off the ground per flight
MaxGameHits == 1             \* a game run ends when the player has taken this
                             \* many hits and the invincibility of the last
                             \* one is over
DuelSkeletons == 1           \* skeletons spawned in a "duel" run
MaxAirHits == 1              \* hits the player takes in an "air_hurt" run
MaxStruck == 4               \* hits a skeleton takes when driven on its own
                             \* (four thrust hits of 7.5 kill it)
BrawlSkeletons == 2          \* skeletons spawned in a "brawl" run
PackSkeletons == 2           \* skeletons spawned in a "pack" run
GraceCap == 2000             \* grace stops counting here
SinceHitCap == 5000          \* since_hit stops counting here
\* amounts handed to Player.take_damage, in hundredths: the two skeleton
\* attack damages (0.75, 1.0), a heavy blow and an overkill
DamageAmounts == {0, 75, 100, 9900, 15000}

----------------------------------------------------------------------------
(* combat_system.py: AttackConfig *)

\* frame_damage_modifiers.get(frame, 1.0), in hundredths
ModifierDefault == 100

\* AttackConfig.__post_init__: the construction-time validation
AttackConfig_valid(c) ==
    /\ c.base_damage >= 0
    /\ c.knockback_force >= 0
    /\ c.max_hits_per_target >= 1

\* an AttackConfig.__post_init__ without the knockback_force test
AttackConfig__post_init__no_knockback(c) ==
    IF c.base_damage < 0 THEN "ValueError"
    ELSE IF c.max_hits_per_target < 1 THEN "ValueError"
    ELSE "none"

\* AttackConfig.__post_init__: what the construction raises ("none": the
\* instance is returned)
AttackConfig__post_init__(c) ==
    IF c.base_damage < 0 THEN "ValueError"
    ELSE IF c.knockback_force < 0 THEN "ValueError"
    ELSE IF c.max_hits_per_target < 1 THEN "ValueError"
    ELSE "none"

\* (knockback_angle is the empty set for None and {a} for a degrees)
\* "config is None"
NoConfig ==
    [name |-> "None", hit_frames |-> {}, base_damage |-> 0,
     knockback_force |-> 0, knockback_angle |-> {},
     hit_stop_frames |-> 0, can_hit_multiple |-> FALSE,
     max_hits_per_target |-> 0, frame_damage_modifiers |-> <<>>]

\* Player.THRUST_ATTACK_CONFIG
THRUST_ATTACK_CONFIG ==
    [name |-> "THRUST", hit_frames |-> {3}, base_damage |-> 1500,
     knockback_force |-> 800, knockback_angle |-> {30},
     hit_stop_frames |-> 3, can_hit_multiple |-> TRUE,
     max_hits_per_target |-> 1,
     frame_damage_modifiers |-> (3 :> 50)]

\* Player.SMASH_ATTACK_CONFIG
SMASH_ATTACK_CONFIG ==
    [name |-> "SMASH", hit_frames |-> {3, 7, 11}, base_damage |-> 2500,
     knockback_force |-> 1500, knockback_angle |-> {45},
     hit_stop_frames |-> 5, can_hit_multiple |-> TRUE,
     max_hits_per_target |-> 2,
     frame_damage_modifiers |-> (3 :> 30 @@ 7 :> 50 @@ 11 :> 20)]

\* AttackConfig(...) with the dataclass defaults and the three fields the
\* hit registration reads chosen freely
GenericConfigs ==
    { [name |-> "GENERIC", hit_frames |-> hf, base_damage |-> 1000,
       knockback_force |-> 500, knockback_angle |-> {},
       hit_stop_frames |-> hs, can_hit_multiple |-> TRUE,
       max_hits_per_target |-> k, frame_damage_modifiers |-> <<>>] :
         hf \in SUBSET (1..MaxHitFrame),
         k \in 1..MaxHitsPerTarget,
         hs \in 0..MaxHitStop }

Configs == {THRUST_ATTACK_CONFIG, SMASH_ATTACK_CONFIG} \cup GenericConfigs

----------------------------------------------------------------------------
(* combat_system.py: AttackState.  A runtime is a record; every method is  *)
(* an operator from the runtime before the call to the runtime after it.   *)
(* The dicts _hit_registry and _hit_counts are total functions with the    *)
(* .get defaults (empty set, 0) for the keys that are absent.              *)

\* AttackState.__init__
AttackState_init ==
    [config |-> NoConfig, current_frame |-> 0, is_active |-> FALSE,
     hit_registry |-> [t \in Targets |-> {}],
     hit_counts |-> [t \in Targets |-> 0],
     hit_stop_remaining |-> 0]

\* begin that keeps the hit counts of the sequence before
AttackState_begin_keeps_counts(s, config) ==
    IF config = NoConfig THEN s
    ELSE [config |-> config, current_frame |-> 0, is_active |-> TRUE,
          hit_registry |-> [t \in Targets |-> {}],
          hit_counts |-> s.hit_counts,
          hit_stop_remaining |-> 0]

\* begin that resets the runtime before it looks at the config
AttackState_begin_resets_first(s, config) ==
    [config |-> config, current_frame |-> 0, is_active |-> config # NoConfig,
     hit_registry |-> [t \in Targets |-> {}],
     hit_counts |-> [t \in Targets |-> 0],
     hit_stop_remaining |-> 0]

\* AttackState.begin: what the call raises ("none": it returns)
AttackState_begin_ret(s, config) ==
    IF config = NoConfig THEN "ValueError" ELSE "none"

\* AttackState.begin; begin(None) raises ValueError before any assignment
AttackState_begin(s, config) ==
    IF config = NoConfig THEN s
    ELSE [config |-> config, current_frame |-> 0, is_active |-> TRUE,
          hit_registry |-> [t \in Targets |-> {}],
          hit_counts |-> [t \in Targets |-> 0],
          hit_stop_remaining |-> 0]

\* AttackState.update
AttackState_update(s, current_animation_frame) ==
    IF ~s.is_active THEN s
    ELSE IF s.hit_stop_remaining > 0
         THEN [s EXCEPT !.hit_stop_remaining = @ - 1]
         ELSE [s EXCEPT !.current_frame = current_animation_frame]

\* end that refuses a runtime on which no attack is running
AttackState_end_ret_strict(s) ==
    IF s.is_active THEN "none" ELSE "RuntimeError"

\* AttackState.end: what the call raises ("none": it returns); the body is
\* five assignments and two dict.clear()
AttackState_end_ret(s) == "none"

\* AttackState.end
AttackState_end(s) ==
    [s EXCEPT !.is_active = FALSE, !.config = NoConfig,
              !.hit_registry = [t \in Targets |-> {}],
              !.hit_counts = [t \in Targets |-> 0],
              !.hit_stop_remaining = 0]

\* AttackState.is_in_hit_stop
AttackState_is_in_hit_stop(s) == s.hit_stop_remaining > 0

\* is_hit_frame_active that does not look at the hit-stop
AttackState_is_hit_frame_active_in_hit_stop(s) ==
    IF ~s.is_active \/ s.config = NoConfig THEN FALSE
    ELSE s.current_frame \in s.config.hit_frames

\* AttackState.is_hit_frame_active
AttackState_is_hit_frame_active(s) ==
    IF ~s.is_active \/ s.config = NoConfig THEN FALSE
    ELSE IF s.hit_stop_remaining > 0 THEN FALSE
    ELSE s.current_frame \in s.config.hit_frames

\* the None that get_current_hitbox and get_attack_hitbox return
NoRect == [frame |-> -1, facing_left |-> FALSE]

\* AttackState.get_current_hitbox: the Rect is given by what to_rect builds
\* it from, the hitbox data of the current frame and the facing (the
\* entity's rect aside)
AttackState_get_current_hitbox(s, facing_left) ==
    IF ~AttackState_is_hit_frame_active(s) THEN NoRect
    ELSE [frame |-> s.current_frame, facing_left |-> facing_left]

\* try_register_hit that never looks at max_hits_per_target
AttackState_try_register_hit_ret_no_max(s, target_id) ==
    /\ AttackState_is_hit_frame_active(s)
    /\ s.config # NoConfig
    /\ ~(s.current_frame \in s.hit_registry[target_id])

\* AttackState.try_register_hit: the value it returns
AttackState_try_register_hit_ret(s, target_id) ==
    /\ AttackState_is_hit_frame_active(s)
    /\ s.config # NoConfig
    /\ ~(s.hit_counts[target_id] >= s.config.max_hits_per_target)
    /\ ~(s.current_frame \in s.hit_registry[target_id])

\* AttackState.try_register_hit: the runtime it leaves
AttackState_try_register_hit(s, target_id) ==
    IF ~AttackState_try_register_hit_ret(s, target_id) THEN s
    ELSE [s EXCEPT
            !.hit_registry[target_id] = @ \cup {s.current_frame},
            !.hit_counts[target_id] = @ + 1,
            !.hit_stop_remaining =
                IF s.config.hit_stop_frames > 0
                THEN s.config.hit_stop_frames ELSE @]

\* get_current_damage that ignores frame_damage_modifiers
AttackState_get_current_damage_flat(s) ==
    IF ~s.is_active \/ s.config = NoConfig THEN 0 ELSE s.config.base_damage

\* AttackState.get_current_damage
AttackState_get_current_damage(s) ==
    IF ~s.is_active \/ s.config = NoConfig THEN 0
    ELSE LET m == s.config.frame_damage_modifiers
             modifier == IF s.current_frame \in DOMAIN m
                         THEN m[s.current_frame] ELSE ModifierDefault
         IN  (s.config.base_damage * modifier) \div 100

----------------------------------------------------------------------------
(* player.py: PlayerState, StateConfig, Player._STATE_CONFIGS *)

PlayerStates ==
    {"DEATH", "HURT", "ATTACK_THRUST", "ATTACK_SMASH",
     "JUMP_UP", "JUMP_DOWN", "RUN", "IDLE"}

\* PlayerState(Enum): the enum values, lower value = higher priority
PlayerState_value ==
    [s \in PlayerStates |->
        CASE s = "DEATH" -> 0
          [] s = "HURT" -> 10
          [] s = "ATTACK_THRUST" -> 20
          [] s = "ATTACK_SMASH" -> 21
          [] s = "JUMP_UP" -> 30
          [] s = "JUMP_DOWN" -> 31
          [] s = "RUN" -> 40
          [] s = "IDLE" -> 50]

StateCfg(speed, loops, interruptible, invincible, locks_mv, locks_in) ==
    [animation_speed |-> speed, loops |-> loops,
     interruptible |-> interruptible, grants_invincibility |-> invincible,
     locks_movement |-> locks_mv, locks_input |-> locks_in]

\* Player._STATE_CONFIGS
STATE_CONFIGS ==
    [s \in PlayerStates |->
        CASE s = "DEATH" -> StateCfg(15, FALSE, FALSE, TRUE, TRUE, TRUE)
          [] s = "HURT" -> StateCfg(20, FALSE, FALSE, TRUE, TRUE, TRUE)
          [] s = "ATTACK_THRUST" -> StateCfg(24, FALSE, FALSE, FALSE, TRUE, FALSE)
          [] s = "ATTACK_SMASH" -> StateCfg(24, FALSE, FALSE, FALSE, TRUE, FALSE)
          [] s = "JUMP_UP" -> StateCfg(27, TRUE, TRUE, FALSE, FALSE, FALSE)
          [] s = "JUMP_DOWN" -> StateCfg(27, TRUE, TRUE, FALSE, FALSE, FALSE)
          [] s = "RUN" -> StateCfg(27, TRUE, TRUE, FALSE, FALSE, FALSE)
          [] s = "IDLE" -> StateCfg(27, TRUE, TRUE, FALSE, FALSE, FALSE)]

\* Player._load_all_animations: the length of each frame list, keyed by the
\* state whose frames it holds
FrameCount ==
    [s \in PlayerStates |->
        CASE s = "DEATH" -> 12
          [] s = "HURT" -> 6
          [] s = "ATTACK_THRUST" -> 9
          [] s = "ATTACK_SMASH" -> 17
          [] s = "JUMP_UP" -> 3
          [] s = "JUMP_DOWN" -> 3
          [] s = "RUN" -> 10
          [] s = "IDLE" -> 12]

AttackStates == {"ATTACK_THRUST", "ATTACK_SMASH"}

\* Player physics and timing constants
GRAVITY_ACCELERATION == 8
JUMP_VELOCITY == -220
AIRBORNE_THRESHOLD == 230
MOVE_SPEED == 34
AIR_MOVE_SPEED == 50
max_health == 100
\* dt = 1.0 / 60.0 in Player.update (GameState.update passes no dt)
Dt == 100
\* self._invincibility_duration = 0.3.  In exact arithmetic 0.3 s is 18
\* ticks of 1/60 s; in the float arithmetic of _update_invincibility the
\* 18th subtraction leaves a positive residue (about 5e-17) and the timer
\* reaches 0 on the 19th.  The residue is the last unit of this constant.
HURT_INVINCIBILITY_DURATION == 1801

\* int(self._gravity): truncation toward zero of the float that
\* _apply_gravity has accumulated.  -22 + 0.8 n lies just above the exact
\* value while n < 80 and just below it from n = 80 on, which moves the
\* truncation by one where the exact value is a whole number.
IntOfGravity(g) ==
    IF g < 0
    THEN IF (-g) % 10 = 0 THEN -((-g) \div 10) + 1 ELSE -((-g) \div 10)
    ELSE IF g % 10 = 0 /\ g >= 420 THEN (g \div 10) - 1 ELSE g \div 10

\* int(amount) for amount >= 0, amount in hundredths
IntOfAmount(amount) == amount \div 100

Max(a, b) == IF a >= b THEN a ELSE b
Min(a, b) == IF a <= b THEN a ELSE b

----------------------------------------------------------------------------
(* player.py: Player.  The instance is a record; alt is                    *)
(* _ground_y - rect.bottom (0 on the ground), dx the displacement the last *)
(* _apply_movement gave rect.x.                                            *)

\* Player.__init__
Player_init ==
    [state |-> "IDLE", current_frames |-> "IDLE", animation_index |-> 0,
     attack_state |-> AttackState_init, current_attack_config |-> "None",
     invincibility_timer |-> 0, invincibility_duration |-> 0,
     gravity |-> 0, alt |-> 0, direction |-> 0, facing_left |-> FALSE,
     dx |-> 0, health |-> max_health]

\* Player.current_frame_index
Player_current_frame_index(p) == p.animation_index \div 100

\* Player.is_dead
Player_is_dead(p) == p.state = "DEATH"

\* Player.is_attacking
Player_is_attacking(p) == p.state \in AttackStates

\* is_invincible that looks at the state only, never at the timer
Player_is_invincible_state_only(p) ==
    STATE_CONFIGS[p.state].grants_invincibility

\* Player.is_invincible
Player_is_invincible(p) ==
    IF STATE_CONFIGS[p.state].grants_invincibility THEN TRUE
    ELSE p.invincibility_timer > 0

\* Player.should_deal_damage
Player_should_deal_damage(p) ==
    IF ~Player_is_attacking(p) THEN FALSE
    ELSE AttackState_is_hit_frame_active(p.attack_state)

\* Player.get_attack_hitbox
Player_get_attack_hitbox(p) ==
    IF ~Player_should_deal_damage(p) THEN NoRect
    ELSE AttackState_get_current_hitbox(p.attack_state, p.facing_left)

\* Player._get_current_config
Player__get_current_config(p) == STATE_CONFIGS[p.state]

\* _can_transition_to without the same-state refusal
Player__can_transition_to_no_self(p, target_state) ==
    IF PlayerState_value[target_state] < PlayerState_value[p.state]
    THEN TRUE
    ELSE STATE_CONFIGS[p.state].interruptible

\* _can_transition_to that lets every other state in
Player__can_transition_to_any(p, target_state) == target_state # p.state

\* Player._can_transition_to
Player__can_transition_to(p, target_state) ==
    IF target_state = p.state THEN FALSE
    ELSE IF PlayerState_value[target_state] < PlayerState_value[p.state]
         THEN TRUE
         ELSE Player__get_current_config(p).interruptible

\* _transition_to that leaves the attack runtime as it is
Player__transition_to_no_end(p, new_state) ==
    [p EXCEPT !.state = new_state,
              !.animation_index = 0,
              !.current_frames = new_state]

\* Player._transition_to
Player__transition_to(p, new_state) ==
    LET p1 == IF Player_is_attacking(p) /\ new_state \notin AttackStates
              THEN [p EXCEPT !.attack_state = AttackState_end(@),
                             !.current_attack_config = "None"]
              ELSE p
    IN  [p1 EXCEPT !.state = new_state,
                   !.animation_index = 0,
                   !.current_frames = new_state]

\* _advance_animation without the hit-stop pause
Player__advance_animation_no_pause(p) ==
    LET config == STATE_CONFIGS[p.state]
        len == FrameCount[p.current_frames] * 100
        p1 == [p EXCEPT !.animation_index = @ + config.animation_speed]
        p2 == IF p1.state \in AttackStates
              THEN [p1 EXCEPT !.attack_state =
                      AttackState_update(@, p1.animation_index \div 100)]
              ELSE p1
    IN  IF p2.animation_index >= len
        THEN IF config.loops
             THEN [p |-> [p2 EXCEPT !.animation_index = 0], completed |-> FALSE]
             ELSE [p |-> [p2 EXCEPT !.animation_index = len - 100],
                   completed |-> TRUE]
        ELSE [p |-> p2, completed |-> FALSE]

\* _advance_animation that returns from a hit-stop without the call of
\* attack_state.update that counts it down
Player__advance_animation_frozen(p) ==
    IF AttackState_is_in_hit_stop(p.attack_state)
    THEN [p |-> p, completed |-> FALSE]
    ELSE Player__advance_animation_no_pause(p)

\* Player._advance_animation: [p |-> the player after, completed |-> result]
Player__advance_animation(p) ==
    LET config == Player__get_current_config(p)
        len == FrameCount[p.current_frames] * 100
    IN
    IF AttackState_is_in_hit_stop(p.attack_state)
    THEN [p |-> [p EXCEPT !.attack_state =
                    AttackState_update(@, Player_current_frame_index(p))],
          completed |-> FALSE]
    ELSE
      LET p1 == [p EXCEPT !.animation_index = @ + config.animation_speed]
          p2 == IF Player_is_attacking(p1)
                THEN [p1 EXCEPT !.attack_state =
                        AttackState_update(@, Player_current_frame_index(p1))]
                ELSE p1
      IN  IF p2.animation_index >= len
          THEN IF config.loops
               THEN [p |-> [p2 EXCEPT !.animation_index = 0],
                     completed |-> FALSE]
               ELSE [p |-> [p2 EXCEPT !.animation_index = len - 100],
                     completed |-> TRUE]
          ELSE [p |-> p2, completed |-> FALSE]

\* Player.take_damage: the value it returns
Player_take_damage_ret(p, amount) == ~Player_is_invincible(p)

\* take_damage that subtracts without the floor at 0
Player_take_damage_no_floor(p, amount) ==
    IF Player_is_invincible(p) THEN p
    ELSE LET p1 == [p EXCEPT !.health = @ - IntOfAmount(amount)]
         IN  IF p1.health <= 0
             THEN Player__transition_to(p1, "DEATH")
             ELSE [Player__transition_to(p1, "HURT") EXCEPT
                      !.invincibility_duration = HURT_INVINCIBILITY_DURATION]

\* Player.take_damage: the player it leaves
Player_take_damage(p, amount) ==
    IF Player_is_invincible(p) THEN p
    ELSE LET p1 == [p EXCEPT !.health = Max(0, @ - IntOfAmount(amount))]
         IN  IF p1.health <= 0
             THEN Player__transition_to(p1, "DEATH")
             ELSE [Player__transition_to(p1, "HURT") EXCEPT
                      !.invincibility_duration = HURT_INVINCIBILITY_DURATION]

\* Player.attack_thrust
Player_attack_thrust_ret(p) == Player__can_transition_to(p, "ATTACK_THRUST")

Player_attack_thrust(p) ==
    IF ~Player__can_transition_to(p, "ATTACK_THRUST") THEN p
    ELSE [Player__transition_to(p, "ATTACK_THRUST") EXCEPT
            !.attack_state = AttackState_begin(@, THRUST_ATTACK_CONFIG),
            !.current_attack_config = "THRUST"]

\* Player.attack_smash
Player_attack_smash_ret(p) == Player__can_transition_to(p, "ATTACK_SMASH")

Player_attack_smash(p) ==
    IF ~Player__can_transition_to(p, "ATTACK_SMASH") THEN p
    ELSE [Player__transition_to(p, "ATTACK_SMASH") EXCEPT
            !.attack_state = AttackState_begin(@, SMASH_ATTACK_CONFIG),
            !.current_attack_config = "SMASH"]

\* Player.jump
Player_jump_ret(p) ==
    /\ ~(p.alt > AIRBORNE_THRESHOLD)
    /\ Player__can_transition_to(p, "JUMP_UP")

Player_jump(p) ==
    IF ~Player_jump_ret(p) THEN p
    ELSE Player__transition_to([p EXCEPT !.gravity = JUMP_VELOCITY], "JUMP_UP")

\* Player.try_register_hit
Player_try_register_hit(p, target_id) ==
    [p EXCEPT !.attack_state = AttackState_try_register_hit(@, target_id)]

\* Player.reset
Player_reset(p) ==
    [p EXCEPT !.health = max_health, !.state = "IDLE",
              !.current_frames = "IDLE", !.animation_index = 0,
              !.attack_state = AttackState_init,
              !.current_attack_config = "None",
              !.invincibility_timer = 0, !.invincibility_duration = 0,
              !.direction = 0, !.facing_left = FALSE, !.gravity = 0,
              !.alt = 0, !.dx = 0]

\* the pressed keys pg.key.get_pressed() reports to one player_input call
KeySets ==
    [left : BOOLEAN, right : BOOLEAN, jump : BOOLEAN,
     thrust : BOOLEAN, smash : BOOLEAN]

NoKeys ==
    [left |-> FALSE, right |-> FALSE, jump |-> FALSE,
     thrust |-> FALSE, smash |-> FALSE]

\* Player._process_movement_input
Player__process_movement_input(p, keys) ==
    IF keys.left THEN [p EXCEPT !.direction = -1, !.facing_left = TRUE]
    ELSE IF keys.right THEN [p EXCEPT !.direction = 1, !.facing_left = FALSE]
    ELSE [p EXCEPT !.direction = 0]

\* Player._process_action_input
Player__process_action_input(p, keys) ==
    LET p1 == IF keys.jump THEN Player_jump(p) ELSE p
        p2 == IF keys.thrust THEN Player_attack_thrust(p1) ELSE p1
    IN  IF keys.smash THEN Player_attack_smash(p2) ELSE p2

\* Player.player_input
Player_player_input(p, keys) ==
    LET config == Player__get_current_config(p) IN
    IF config.locks_input THEN p
    ELSE LET p1 == IF ~config.locks_movement
                   THEN Player__process_movement_input(p, keys) ELSE p
         IN  Player__process_action_input(p1, keys)

\* Player._apply_gravity
Player__apply_gravity(p) ==
    LET g == p.gravity + GRAVITY_ACCELERATION
        a == p.alt - IntOfGravity(g)
    IN  IF a <= 0
        THEN [p EXCEPT !.gravity = 0, !.alt = 0]
        ELSE [p EXCEPT !.gravity = g, !.alt = a]

\* Player._apply_movement (the clamp to the screen bounds is not modelled)
Player__apply_movement(p) ==
    IF p.direction = 0 THEN [p EXCEPT !.dx = 0]
    ELSE LET move_speed == IF p.alt <= 1 THEN MOVE_SPEED ELSE AIR_MOVE_SPEED
             \* int(self._direction * move_speed) truncates toward zero
         IN  [p EXCEPT !.dx = p.direction * (move_speed \div 10)]

\* Player._update_invincibility
Player__update_invincibility(p, dt) ==
    IF p.invincibility_timer > 0
    THEN [p EXCEPT !.invincibility_timer = Max(0, @ - dt)]
    ELSE p

\* Player._transition_to_movement_state
Player__transition_to_movement_state(p) ==
    IF p.alt > AIRBORNE_THRESHOLD
    THEN IF p.gravity < 0
         THEN Player__transition_to(p, "JUMP_UP")
         ELSE Player__transition_to(p, "JUMP_DOWN")
    ELSE IF p.direction # 0
         THEN Player__transition_to(p, "RUN")
         ELSE Player__transition_to(p, "IDLE")

\* Player._animate_death
Player__animate_death(p) == Player__advance_animation(p).p

\* _animate_hurt that never starts the grace timer
Player__animate_hurt_no_grace(p) ==
    LET r == Player__advance_animation(p) IN
    IF r.completed THEN Player__transition_to(r.p, "IDLE") ELSE r.p

\* _animate_hurt that leaves HURT for the state the physics ask for
Player__animate_hurt_to_movement(p) ==
    LET r == Player__advance_animation(p) IN
    IF r.completed
    THEN Player__transition_to_movement_state(
            [r.p EXCEPT !.invincibility_timer = r.p.invincibility_duration])
    ELSE r.p

\* Player._animate_hurt
Player__animate_hurt(p) ==
    LET r == Player__advance_animation(p) IN
    IF r.completed
    THEN Player__transition_to(
            [r.p EXCEPT !.invincibility_timer = r.p.invincibility_duration],
            "IDLE")
    ELSE r.p

\* Player._animate_attack_thrust and Player._animate_attack_smash (the
\* audio cues of the smash aside, the two have the same body)
Player__animate_attack(p) ==
    LET r == Player__advance_animation(p) IN
    IF r.completed
    THEN Player__transition_to_movement_state(
            [r.p EXCEPT !.attack_state = AttackState_end(@)])
    ELSE r.p

\* Player._animate_jump_up
Player__animate_jump_up(p) ==
    LET p1 == Player__advance_animation(p).p IN
    IF p1.gravity >= 0 THEN Player__transition_to(p1, "JUMP_DOWN") ELSE p1

\* Player._animate_jump_down
Player__animate_jump_down(p) ==
    LET p1 == Player__advance_animation(p).p IN
    IF p1.alt <= 0 THEN Player__transition_to_movement_state(p1) ELSE p1

\* Player._animate_run
Player__animate_run(p) ==
    LET p1 == Player__advance_animation(p).p
        p2 == IF p1.direction = 0 THEN Player__transition_to(p1, "IDLE") ELSE p1
    IN  IF p2.alt > AIRBORNE_THRESHOLD
        THEN Player__transition_to(p2, "JUMP_DOWN") ELSE p2

\* Player._animate_idle
Player__animate_idle(p) ==
    LET p1 == Player__advance_animation(p).p
        p2 == IF p1.direction # 0 THEN Player__transition_to(p1, "RUN") ELSE p1
    IN  IF p2.alt > AIRBORNE_THRESHOLD
        THEN Player__transition_to(p2, "JUMP_DOWN") ELSE p2

\* Player._update_animation (the match on the state; _apply_frame only
\* picks the image to draw)
Player__update_animation(p) ==
    CASE p.state = "DEATH" -> Player__animate_death(p)
      [] p.state = "HURT" -> Player__animate_hurt(p)
      [] p.state \in AttackStates -> Player__animate_attack(p)
      [] p.state = "JUMP_UP" -> Player__animate_jump_up(p)
      [] p.state = "JUMP_DOWN" -> Player__animate_jump_down(p)
      [] p.state = "RUN" -> Player__animate_run(p)
      [] p.state = "IDLE" -> Player__animate_idle(p)

\* Player.update up to the call of _update_animation
Player_update_before_animation(p, keys) ==
    Player__apply_movement(
        Player__apply_gravity(
            Player_player_input(p, keys)))

\* Player.update
Player_update(p, keys) ==
    Player__update_invincibility(
        Player__update_animation(Player_update_before_animation(p, keys)),
        Dt)

----------------------------------------------------------------------------
(* skeleton.py: Skeleton.  Health and damage are in hundredths, the        *)
(* animation index in hundredths of a frame.  The position is kept as the  *)
(* distance class the AI and the collision tests read (see Distances).     *)

SkeletonStates == {"IDLE", "CHASE", "ATTACK", "HURT", "DEATH"}

\* Skeleton.ATTACK_1_CONFIG, Skeleton.ATTACK_2_CONFIG and "config is None"
Skeleton_ATTACK_1_CONFIG == [name |-> "ATTACK_1", hit_frames |-> {6}, damage |-> 100]
Skeleton_ATTACK_2_CONFIG == [name |-> "ATTACK_2", hit_frames |-> {5, 6}, damage |-> 75]
Skeleton_NoConfig == [name |-> "None", hit_frames |-> {}, damage |-> 0]

\* Skeleton._ANIM_SPEED_*
ANIM_SPEED_IDLE == 10
ANIM_SPEED_WALK == 15
ANIM_SPEED_ATTACK == 15
ANIM_SPEED_HURT == 15
ANIM_SPEED_DEATH == 15

\* Skeleton.__init__: the length of each frame list
SkeletonFrameCount ==
    [f \in {"idle", "walk", "attack", "attack2", "hurt", "death"} |->
        CASE f = "idle" -> 8
          [] f = "walk" -> 10
          [] f = "attack" -> 10
          [] f = "attack2" -> 9
          [] f = "hurt" -> 5
          [] f = "death" -> 13]

skeleton_max_health == 3000

\* skeleton.py AttackState() and AttackState.reset
SkeletonAttackState_reset ==
    [is_active |-> FALSE, config |-> Skeleton_NoConfig,
     hit_connected |-> FALSE, last_frame_checked |-> -1]

\* skeleton.py AttackState.begin
SkeletonAttackState_begin(config) ==
    [is_active |-> TRUE, config |-> config,
     hit_connected |-> FALSE, last_frame_checked |-> -1]

\* Skeleton.__init__; present says the sprite is in obstacle_group
Skeleton_init ==
    [present |-> TRUE, state |-> "IDLE", current_frames |-> "idle",
     animation_index |-> 0, attack_state |-> SkeletonAttackState_reset,
     health |-> skeleton_max_health]

\* a slot of obstacle_group that holds no skeleton
NoSkeleton == [Skeleton_init EXCEPT !.present = FALSE]

\* Skeleton.current_frame_index: int(self._animation_index).  In ATTACK,
\* HURT and DEATH the index is a float sum of 0.15 steps from 0; the sum of
\* 20 steps is 2.9999999999999996, every other sum truncates like the exact
\* value.  (In IDLE and CHASE the frame is only drawn, never tested.)
Skeleton_current_frame_index(s) ==
    IF s.animation_index = 300 /\ s.state \in {"ATTACK", "HURT", "DEATH"}
    THEN 2
    ELSE s.animation_index \div 100

\* Skeleton.is_alive
Skeleton_is_alive(s) == s.state # "DEATH"

\* Skeleton.is_in_hit_frame
Skeleton_is_in_hit_frame(s) ==
    IF ~s.attack_state.is_active THEN FALSE
    ELSE IF s.attack_state.config = Skeleton_NoConfig THEN FALSE
    ELSE Skeleton_current_frame_index(s) \in s.attack_state.config.hit_frames

\* Skeleton.should_deal_damage: the value it returns
Skeleton_should_deal_damage_ret(s) ==
    /\ Skeleton_is_in_hit_frame(s)
    /\ ~s.attack_state.hit_connected
    /\ Skeleton_current_frame_index(s) # s.attack_state.last_frame_checked

\* Skeleton.should_deal_damage: the skeleton it leaves
Skeleton_should_deal_damage(s) ==
    IF Skeleton_should_deal_damage_ret(s)
    THEN [s EXCEPT !.attack_state.last_frame_checked =
                        Skeleton_current_frame_index(s)]
    ELSE s

\* register_hit that records nothing
Skeleton_register_hit_forgets(s) == s

\* Skeleton.register_hit
Skeleton_register_hit(s) == [s EXCEPT !.attack_state.hit_connected = TRUE]

\* Skeleton.get_current_attack_damage
Skeleton_get_current_attack_damage(s) ==
    IF s.attack_state.config = Skeleton_NoConfig THEN 0
    ELSE s.attack_state.config.damage

\* take_damage without the transition to HURT
Skeleton_take_damage_keeps_state(s, amount) ==
    IF s.state \in {"HURT", "DEATH"} THEN s
    ELSE LET h == Max(0, s.health - amount) IN
         [s EXCEPT !.health = h,
                   !.animation_index = 0,
                   !.attack_state = SkeletonAttackState_reset,
                   !.state = IF h <= 0 THEN "DEATH" ELSE @]

\* take_damage that lowers the health and lets a running attack go on
Skeleton_take_damage_keeps_attack(s, amount) ==
    IF s.state \in {"HURT", "DEATH"} THEN s
    ELSE LET h == Max(0, s.health - amount) IN
         IF h <= 0
         THEN [s EXCEPT !.health = h, !.animation_index = 0,
                        !.attack_state = SkeletonAttackState_reset,
                        !.state = "DEATH"]
         ELSE [s EXCEPT !.health = h]

\* take_damage that is refused in DEATH only
Skeleton_take_damage_while_hurt(s, amount) ==
    IF s.state = "DEATH" THEN s
    ELSE LET h == Max(0, s.health - amount) IN
         [s EXCEPT !.health = h,
                   !.animation_index = 0,
                   !.attack_state = SkeletonAttackState_reset,
                   !.state = IF h <= 0 THEN "DEATH" ELSE "HURT"]

\* Skeleton.take_damage
Skeleton_take_damage(s, amount) ==
    IF s.state \in {"HURT", "DEATH"} THEN s
    ELSE LET h == Max(0, s.health - amount) IN
         [s EXCEPT !.health = h,
                   !.animation_index = 0,
                   !.attack_state = SkeletonAttackState_reset,
                   !.state = IF h <= 0 THEN "DEATH" ELSE "HURT"]

\* what the AI and the collision tests see of the two positions:
\*   "melee"   dist_x < _attack_range, dist_y < _vertical_tolerance, and
\*             the rects (and the player's attack hitbox) overlap
\*   "detect"  dist_x < _detection_range, dist_y < _vertical_tolerance
\*   "far"     anything else
Distances == {"melee", "detect", "far"}

\* Skeleton._begin_attack; choice is the outcome of random.random() < 0.5
Skeleton__begin_attack(s, choice) ==
    IF choice
    THEN [s EXCEPT !.state = "ATTACK", !.animation_index = 0,
                   !.current_frames = "attack",
                   !.attack_state =
                        SkeletonAttackState_begin(Skeleton_ATTACK_1_CONFIG)]
    ELSE [s EXCEPT !.state = "ATTACK", !.animation_index = 0,
                   !.current_frames = "attack2",
                   !.attack_state =
                        SkeletonAttackState_begin(Skeleton_ATTACK_2_CONFIG)]

\* _update_ai that takes its decision in ATTACK too
Skeleton__update_ai_in_attack(s, distance, choice) ==
    IF s.state \in {"HURT", "DEATH"} THEN s
    ELSE IF distance = "melee" THEN Skeleton__begin_attack(s, choice)
    ELSE IF distance = "detect" THEN [s EXCEPT !.state = "CHASE"]
    ELSE [s EXCEPT !.state = "IDLE"]

\* Skeleton._update_ai: whether it calls _chase_player (the step toward the
\* player; the rect itself is not modelled).  The call stands after the
\* decision, behind the two early returns, under `_state == CHASE`.
Skeleton__update_ai_chases(s, distance) ==
    IF s.state \in {"HURT", "DEATH"} THEN FALSE
    ELSE IF s.state = "ATTACK" THEN FALSE
    ELSE distance = "detect"

\* Skeleton._update_ai
Skeleton__update_ai(s, distance, choice) ==
    IF s.state \in {"HURT", "DEATH"} THEN s
    ELSE IF s.state = "ATTACK" THEN s
    ELSE IF distance = "melee" THEN Skeleton__begin_attack(s, choice)
    ELSE IF distance = "detect" THEN [s EXCEPT !.state = "CHASE"]
    ELSE [s EXCEPT !.state = "IDLE"]

\* _animate_death that holds the last frame and never calls kill()
Skeleton__animate_death_stays(s) ==
    LET s1 == [s EXCEPT !.current_frames = "death",
                        !.animation_index = @ + ANIM_SPEED_DEATH]
    IN  IF s1.animation_index >= SkeletonFrameCount[s1.current_frames] * 100
        THEN [s1 EXCEPT !.animation_index =
                            SkeletonFrameCount[s1.current_frames] * 100 - 100]
        ELSE s1

\* Skeleton._animate_death; kill() takes the sprite out of obstacle_group
Skeleton__animate_death(s) ==
    LET s1 == [s EXCEPT !.current_frames = "death",
                        !.animation_index = @ + ANIM_SPEED_DEATH]
    IN  IF s1.animation_index >= SkeletonFrameCount[s1.current_frames] * 100
        THEN [s1 EXCEPT !.present = FALSE]
        ELSE s1

\* Skeleton._animate_hurt
Skeleton__animate_hurt(s) ==
    LET s1 == [s EXCEPT !.current_frames = "hurt",
                        !.animation_index = @ + ANIM_SPEED_HURT]
    IN  IF s1.animation_index >= SkeletonFrameCount[s1.current_frames] * 100
        THEN [s1 EXCEPT !.state = "IDLE", !.animation_index = 0]
        ELSE s1

\* Skeleton._animate_attack
Skeleton__animate_attack(s) ==
    LET s1 == [s EXCEPT !.animation_index = @ + ANIM_SPEED_ATTACK]
    IN  IF s1.animation_index >= SkeletonFrameCount[s1.current_frames] * 100
        THEN [s1 EXCEPT !.state = "IDLE", !.animation_index = 0,
                        !.current_frames = "idle",
                        !.attack_state = SkeletonAttackState_reset]
        ELSE s1

\* Skeleton._animate_walk
Skeleton__animate_walk(s) ==
    LET s1 == [s EXCEPT !.current_frames = "walk",
                        !.animation_index = @ + ANIM_SPEED_WALK]
    IN  IF s1.animation_index >= SkeletonFrameCount[s1.current_frames] * 100
        THEN [s1 EXCEPT !.animation_index = 0]
        ELSE s1

\* Skeleton._animate_idle
Skeleton__animate_idle(s) ==
    LET s1 == [s EXCEPT !.current_frames = "idle",
                        !.animation_index = @ + ANIM_SPEED_IDLE]
    IN  IF s1.animation_index >= SkeletonFrameCount[s1.current_frames] * 100
        THEN [s1 EXCEPT !.animation_index = 0]
        ELSE s1

\* Skeleton._update_animation (_apply_frame only picks the image to draw)
Skeleton__update_animation(s) ==
    CASE s.state = "DEATH" -> Skeleton__animate_death(s)
      [] s.state = "HURT" -> Skeleton__animate_hurt(s)
      [] s.state = "ATTACK" -> Skeleton__animate_attack(s)
      [] s.state = "CHASE" -> Skeleton__animate_walk(s)
      [] s.state = "IDLE" -> Skeleton__animate_idle(s)

\* Skeleton.update
Skeleton_update(s, distance, choice) ==
    Skeleton__update_animation(Skeleton__update_ai(s, distance, choice))

----------------------------------------------------------------------------
(* bat.py, goblin.py, green_monster.py and my_engine/animation.py: the     *)
(* scripted enemies StoryState updates every frame.  An instance is a      *)
(* record: kind, state, state_timer, start_delay, x (rect.x, the left      *)
(* edge), and of its animator the current animation's name, frame index,   *)
(* timer and finished flag (set() resets an animation whenever it makes it *)
(* current, so only the current one's state is ever read).  Times are in   *)
(* ms.  flip_x only mirrors the image and is not modelled.                 *)

AmbientKinds == {"Bat", "Goblin", "GreenMonster"}

AmbientScreenWidth == 300    \* screen_width handed to the constructors
AmbientWidth == 40           \* width of the sprite's first frame
AmbientFrames == 2           \* frames in each animation's frame list
AmbientDts == {50, 100}      \* the dt (ms) of one update
AmbientDelays == {0, 2000, 4000}  \* start_delay: the default, and the two
                                  \* StoryState gives

\* self.speed
Ambient_speed(kind) == IF kind = "Bat" THEN 250 ELSE 200

\* the animation ENTER and EXIT set
Ambient_move_animation(kind) ==
    CASE kind = "Bat" -> "fly"
      [] kind = "Goblin" -> "run"
      [] kind = "GreenMonster" -> "walk"

\* the centerx at which ENTER stops
Ambient_stop_centerx(kind) ==
    IF kind = "Goblin" THEN AmbientScreenWidth \div 2 - 100
    ELSE AmbientScreenWidth \div 2

\* Animation.frame_duration, Animation.loop
Animation_frame_duration(name) ==
    IF name \in {"attack_1", "attack_2"} THEN 150 ELSE 100

Animation_loop(name) == name \notin {"attack", "attack_1", "attack_2"}

\* int() of a quotient, toward zero
TruncDiv(n, d) == IF n >= 0 THEN n \div d ELSE -((-n) \div d)

\* a >= b on sums of dt / 1000.0: where the exact values are equal the
\* float sum may stand on either side
FloatGE(a, b, exact) == a > b \/ (a = b /\ exact)

\* __init__(x = -100, ...): rect = image.get_rect(midbottom=(x, y))
Ambient_init(kind, start_delay) ==
    [kind |-> kind,
     state |-> IF start_delay > 0 THEN "WAITING" ELSE "ENTER",
     state_timer |-> 0, start_delay |-> start_delay,
     x |-> -100 - AmbientWidth \div 2,
     anim |-> Ambient_move_animation(kind), frame |-> 0, timer |-> 0,
     finished |-> FALSE]

\* no instance
NoAmbient ==
    [kind |-> "None", state |-> "None", state_timer |-> 0, start_delay |-> 0,
     x |-> 0, anim |-> "None", frame |-> 0, timer |-> 0, finished |-> FALSE]

\* Animator.set
Animator_set(e, name) ==
    IF e.anim # name
    THEN [e EXCEPT !.anim = name, !.frame = 0, !.timer = 0,
                   !.finished = FALSE]
    ELSE e

\* an Animation.update that wraps every animation around at its end
Animator_update_always_loops(e, dt, exact) ==
    LET t == e.timer + dt IN
    IF ~FloatGE(t, Animation_frame_duration(e.anim), exact)
    THEN [e EXCEPT !.timer = t]
    ELSE [e EXCEPT !.timer = 0, !.frame = (@ + 1) % AmbientFrames]

\* Animator.update / Animation.update
Animator_update(e, dt, exact) ==
    IF e.finished THEN e
    ELSE LET t == e.timer + dt IN
         IF ~FloatGE(t, Animation_frame_duration(e.anim), exact)
         THEN [e EXCEPT !.timer = t]
         ELSE IF e.frame + 1 < AmbientFrames
              THEN [e EXCEPT !.timer = 0, !.frame = @ + 1]
              ELSE IF Animation_loop(e.anim)
                   THEN [e EXCEPT !.timer = 0, !.frame = 0]
                   ELSE [e EXCEPT !.timer = 0, !.frame = AmbientFrames - 1,
                                  !.finished = TRUE]

\* rect.x += self.speed * dt_sec (the Rect keeps the integer part)
Ambient_move(e, dt) ==
    [e EXCEPT !.x = TruncDiv(e.x * 1000 + Ambient_speed(e.kind) * dt, 1000)]

\* the WAITING branch of update
Ambient_WAITING(e, dt, exact) ==
    LET e1 == [e EXCEPT !.state_timer = @ + dt] IN
    IF FloatGE(e1.state_timer, e1.start_delay, exact)
    THEN [e1 EXCEPT !.state = "ENTER", !.state_timer = 0]
    ELSE e1

\* the ENTER branch, which stops for the state idle_state
Ambient_ENTER(e, dt, idle_state) ==
    LET e1 == Animator_set(Ambient_move(e, dt), Ambient_move_animation(e.kind))
    IN  IF e1.x + AmbientWidth \div 2 >= Ambient_stop_centerx(e.kind)
        THEN Animator_set([e1 EXCEPT !.state = idle_state, !.state_timer = 0],
                          "idle")
        ELSE e1

\* an IDLE branch: after `pause` ms on to the state attack_state_name with
\* its animation
Ambient_IDLE(e, dt, exact, pause, attack_state_name, animation) ==
    LET e1 == [e EXCEPT !.state_timer = @ + dt] IN
    IF FloatGE(e1.state_timer, pause, exact)
    THEN Animator_set([e1 EXCEPT !.state = attack_state_name], animation)
    ELSE e1

\* the ATTACK branch of Bat and Goblin, the ATTACK_2 branch of GreenMonster
Ambient_ATTACK(e) ==
    IF e.finished
    THEN Animator_set([e EXCEPT !.state = "EXIT"],
                      Ambient_move_animation(e.kind))
    ELSE e

\* the ATTACK_1 branch of GreenMonster
GreenMonster_ATTACK_1(e) ==
    IF e.finished
    THEN Animator_set([e EXCEPT !.state = "IDLE_2", !.state_timer = 0], "idle")
    ELSE e

\* an EXIT branch that starts the script over at WAITING
Ambient_EXIT_to_waiting(e, dt) ==
    LET e1 == Animator_set(Ambient_move(e, dt), Ambient_move_animation(e.kind))
    IN  IF e1.x > AmbientScreenWidth
        THEN [e1 EXCEPT !.x = -AmbientWidth, !.state = "WAITING",
                        !.state_timer = 0]
        ELSE e1

\* the EXIT branch: off the right edge, rect.right = 0 and ENTER again
Ambient_EXIT(e, dt) ==
    LET e1 == Animator_set(Ambient_move(e, dt), Ambient_move_animation(e.kind))
    IN  IF e1.x > AmbientScreenWidth
        THEN [e1 EXCEPT !.x = -AmbientWidth, !.state = "ENTER"]
        ELSE e1

\* Bat.update (the elif chain, then animator.update)
Bat_update(e, dt, exact) ==
    Animator_update(
        CASE e.state = "WAITING" -> Ambient_WAITING(e, dt, exact)
          [] e.state = "ENTER" -> Ambient_ENTER(e, dt, "IDLE")
          [] e.state = "IDLE" ->
                Ambient_IDLE(e, dt, exact, 500, "ATTACK", "attack")
          [] e.state = "ATTACK" -> Ambient_ATTACK(e)
          [] e.state = "EXIT" -> Ambient_EXIT(e, dt)
          [] OTHER -> e,
        dt, exact)

\* Goblin.update: the body of Bat.update up to the speed, the stop and the
\* animation names
Goblin_update(e, dt, exact) == Bat_update(e, dt, exact)

\* GreenMonster.update
GreenMonster_update(e, dt, exact) ==
    Animator_update(
        CASE e.state = "WAITING" -> Ambient_WAITING(e, dt, exact)
          [] e.state = "ENTER" -> Ambient_ENTER(e, dt, "IDLE_1")
          [] e.state = "IDLE_1" ->
                Ambient_IDLE(e, dt, exact, 500, "ATTACK_1", "attack_1")
          [] e.state = "ATTACK_1" -> GreenMonster_ATTACK_1(e)
          [] e.state = "IDLE_2" ->
                Ambient_IDLE(e, dt, exact, 200, "ATTACK_2", "attack_2")
          [] e.state = "ATTACK_2" -> Ambient_ATTACK(e)
          [] e.state = "EXIT" -> Ambient_EXIT(e, dt)
          [] OTHER -> e,
        dt, exact)

\* the update of the instance's class
Ambient_update(e, dt, exact) ==
    CASE e.kind = "Bat" -> Bat_update(e, dt, exact)
      [] e.kind = "Goblin" -> Goblin_update(e, dt, exact)
      [] e.kind = "GreenMonster" -> GreenMonster_update(e, dt, exact)

----------------------------------------------------------------------------
(* game_state.py: GameState.  The game is a record g of the player, the    *)
(* skeletons of obstacle_group (a slot per entity id, in insertion order),  *)
(* the distance class of each, the score and the game-over timer.  The      *)
(* knockback offset of the player's rect and the audio calls are not        *)
(* modelled.                                                                *)

max_skeletons == 3
SCORE_PER_HIT == 10
GAME_OVER_DELAY_MS == 3000

\* GameState.__init__
GameState_init ==
    [player |-> Player_init,
     skeletons |-> [i \in Targets |-> NoSkeleton],
     distance |-> [i \in Targets |-> "far"],
     score |-> 0,
     game_over_timer |-> -1]

\* GameState.spawn_skeleton: the new sprite takes the first free entity id
\* and stands off-screen to the right
GameState_spawn_skeleton(g) ==
    LET free == {i \in DOMAIN g.skeletons : ~g.skeletons[i].present} IN
    IF free = {} THEN g
    ELSE LET i == CHOOSE j \in free : \A k \in free : j <= k IN
         [g EXCEPT !.skeletons[i] = Skeleton_init, !.distance[i] = "far"]

\* sum(1 for sprite in self.obstacle_group if isinstance(sprite, Skeleton))
GameState_current_skeletons(g) ==
    Cardinality({i \in DOMAIN g.skeletons : g.skeletons[i].present})

\* a spawn path that does not look at the count
GameState__manage_skeleton_spawns_uncapped(g) == GameState_spawn_skeleton(g)

\* GameState.spawn_enemies (the skeleton part) and _manage_skeleton_spawns,
\* called when the spawn time has come
GameState__manage_skeleton_spawns(g) ==
    LET current_skeletons == GameState_current_skeletons(g)
    IN  IF current_skeletons < max_skeletons
        THEN GameState_spawn_skeleton(g)
        ELSE g

\* GameState._apply_player_damage_to_enemy; Skeleton.take_damage takes no
\* knockback argument, so the TypeError fallback calls take_damage(damage)
GameState__apply_player_damage_to_enemy(g, i) ==
    LET damage == AttackState_get_current_damage(g.player.attack_state) IN
    [g EXCEPT !.skeletons[i] = Skeleton_take_damage(@, damage),
              !.score = @ + SCORE_PER_HIT]

\* the body of the loop of _process_player_attacks for obstacle i.  A
\* Skeleton has no is_dead, is_invincible, hitbox or entity_id attribute.
GameState__player_attack_on(g, i) ==
    IF ~g.skeletons[i].present THEN g
    ELSE IF g.distance[i] # "melee" THEN g
    ELSE IF ~AttackState_try_register_hit_ret(g.player.attack_state, i)
         THEN [g EXCEPT !.player = Player_try_register_hit(@, i)]
         ELSE GameState__apply_player_damage_to_enemy(
                [g EXCEPT !.player = Player_try_register_hit(@, i)], i)

RECURSIVE GameState__player_attacks_from(_, _)
GameState__player_attacks_from(g, i) ==
    IF i \notin Targets THEN g
    ELSE GameState__player_attacks_from(GameState__player_attack_on(g, i), i + 1)

\* GameState._process_player_attacks
GameState__process_player_attacks(g) ==
    IF ~Player_should_deal_damage(g.player) THEN g
    ELSE GameState__player_attacks_from(g, 1)

\* GameState._handle_skeleton_attack
GameState__handle_skeleton_attack(g, i) ==
    LET skeleton == g.skeletons[i] IN
    IF ~skeleton.present THEN g
    ELSE IF skeleton.state # "ATTACK" THEN g
    ELSE IF ~Skeleton_should_deal_damage_ret(skeleton) THEN g
    ELSE IF g.distance[i] # "melee"
         THEN [g EXCEPT !.skeletons[i] = Skeleton_should_deal_damage(@)]
         ELSE LET damage == Skeleton_get_current_attack_damage(skeleton)
                  damage_applied == Player_take_damage_ret(g.player, damage)
              IN  [g EXCEPT
                     !.skeletons[i] =
                        Skeleton_register_hit(Skeleton_should_deal_damage(@)),
                     !.player = Player_take_damage(@, damage),
                     !.score = IF damage_applied THEN Max(0, @ - 5) ELSE @]

RECURSIVE GameState__enemy_attacks_from(_, _)
GameState__enemy_attacks_from(g, i) ==
    IF i \notin Targets THEN g
    ELSE GameState__enemy_attacks_from(GameState__handle_skeleton_attack(g, i), i + 1)

\* GameState._process_enemy_attacks
GameState__process_enemy_attacks(g) ==
    IF Player_is_invincible(g.player) THEN g
    ELSE GameState__enemy_attacks_from(g, 1)

\* GameState._handle_combat_collisions; spawn_due says that the spawn time
\* has come when the passes are over
GameState__handle_combat_collisions(g, spawn_due) ==
    IF Player_is_dead(g.player) THEN g
    ELSE LET g1 == GameState__process_enemy_attacks(
                        GameState__process_player_attacks(g))
         IN  IF spawn_due THEN GameState__manage_skeleton_spawns(g1) ELSE g1

\* GameState._check_game_over, the timer counted in update ticks
GameState__check_game_over(g) ==
    LET g1 == IF Player_is_dead(g.player) /\ g.game_over_timer = -1
              THEN [g EXCEPT !.game_over_timer = 0] ELSE g
    IN  IF g1.game_over_timer >= GAME_OVER_DELAY_MS * 6
        THEN [g1 EXCEPT !.game_over_timer = -1, !.player = Player_reset(@)]
        ELSE IF g1.game_over_timer >= 0
             THEN [g1 EXCEPT !.game_over_timer = @ + Dt]
             ELSE g1

\* GameState.update up to the combat resolution: spawn_enemies, then
\* player.update() and obstacle_group.update(); env is what this tick takes
\* from outside: the keys held, whether the spawn time has come at the
\* start, and the outcome of random.random() for each skeleton
GameState_update_entities(g, env) ==
    LET g1 == IF env.spawn_at_start THEN GameState__manage_skeleton_spawns(g)
              ELSE g
    IN  [g1 EXCEPT
            !.player = Player_update(@, env.keys),
            !.skeletons = [i \in Targets |->
                IF g1.skeletons[i].present
                THEN Skeleton_update(g1.skeletons[i], g1.distance[i],
                                     env.choice[i])
                ELSE g1.skeletons[i]]]

\* GameState.update
GameState_update(g, env) ==
    GameState__check_game_over(
        GameState__handle_combat_collisions(
            GameState_update_entities(g, env), env.spawn_at_end))

----------------------------------------------------------------------------
(* my_engine/state_machine.py: State and StateManager.  The manager is a   *)
(* record of its stack (a sequence of State objects, the top last) and,    *)
(* for every State object, of what its on_enter and on_exit overrides      *)
(* have seen: last is the callback the object got last, twice says that    *)
(* it has got the same callback two times running.                         *)

StateObjects == {"a", "b", "c"}

\* StateManager.__init__, and State objects that have got no callback
StateManager_init ==
    [stack |-> <<>>,
     last |-> [s \in StateObjects |-> "none"],
     twice |-> [s \in StateObjects |-> FALSE]]

\* state.on_enter() / state.on_exit() called by the manager
State_callback(m, state, callback) ==
    [m EXCEPT !.last[state] = callback,
              !.twice[state] = @ \/ m.last[state] = callback]

State_on_enter(m, state) == State_callback(m, state, "on_enter")
State_on_exit(m, state) == State_callback(m, state, "on_exit")

\* self.stack.pop()
StateManager__stack_pop(m) ==
    [m EXCEPT !.stack = SubSeq(@, 1, Len(@) - 1)]

\* StateManager.push
StateManager_push(m, state) ==
    LET m1 == IF m.stack # <<>> THEN State_on_exit(m, m.stack[Len(m.stack)])
              ELSE m
    IN  State_on_enter([m1 EXCEPT !.stack = Append(@, state)], state)

\* StateManager.pop
StateManager_pop(m) ==
    LET m1 == IF m.stack # <<>>
              THEN StateManager__stack_pop(
                       State_on_exit(m, m.stack[Len(m.stack)]))
              ELSE m
    IN  IF m1.stack # <<>> THEN State_on_enter(m1, m1.stack[Len(m1.stack)])
        ELSE m1

\* the while loop of StateManager.set
RECURSIVE StateManager__unwind(_)
StateManager__unwind(m) ==
    IF m.stack = <<>> THEN m
    ELSE StateManager__unwind(
             StateManager__stack_pop(State_on_exit(m, m.stack[Len(m.stack)])))

\* StateManager.set
StateManager_set(m, state) ==
    LET m1 == StateManager__unwind(m) IN
    State_on_enter([m1 EXCEPT !.stack = Append(@, state)], state)

----------------------------------------------------------------------------
(* Bookkeeping of what try_register_hit returned during one begin...end    *)
(* sequence; it is read by the properties only.                            *)

NoHits == [t \in Targets |-> 0]
NotHeld == [t \in Targets |-> FALSE]

gameVars == <<game, spawned, thrust_hits, smash_hits, hit_due,
              invincible_at_pass, due_at_start, deals, damages, ambient,
              new_config, manager>>

playerVars == <<player, hits_taken, since_hit, grace, air_jumps, scenario,
                gameVars>>

\* the GameState record of a player and the rest of the game, and back
WithPlayer(gm, p) ==
    [player |-> p, skeletons |-> gm.skeletons, distance |-> gm.distance,
     score |-> gm.score, game_over_timer |-> gm.game_over_timer]

WithoutPlayer(g) ==
    [skeletons |-> g.skeletons, distance |-> g.distance,
     score |-> g.score, game_over_timer |-> g.game_over_timer]

NoGame ==
    /\ game = WithoutPlayer(GameState_init)
    /\ spawned = 0
    /\ thrust_hits = NoHits /\ smash_hits = NoHits
    /\ hit_due = NotHeld /\ invincible_at_pass = FALSE
    /\ due_at_start = NotHeld
    /\ deals = 0 /\ damages = 0

\* the runtime s answered a try_register_hit(t) call
Observe(s, t) ==
    LET r == AttackState_try_register_hit_ret(s, t) IN
    /\ true_count' = IF r THEN [true_count EXCEPT ![t] = @ + 1] ELSE true_count
    /\ dup_hit' = (dup_hit \/ (r /\ held[t]))
    /\ held' = [held EXCEPT ![t] = @ \/ r]
    /\ dealt' = IF r THEN [dealt EXCEPT ![t] = @ + AttackState_get_current_damage(s)]
                ELSE dealt

ObserveNewSequence ==
    /\ true_count' = NoHits
    /\ held' = NotHeld
    /\ dup_hit' = FALSE
    /\ dealt' = NoHits

\* math.cos / math.sin of math.radians(angle), in thousandths, for the
\* angles the configs of these runs use
Cos1000(angle) ==
    CASE angle = 0 -> 1000 [] angle = 30 -> 866 [] angle = 45 -> 707
      [] angle = 90 -> 0

Sin1000(angle) ==
    CASE angle = 0 -> 0 [] angle = 30 -> 500 [] angle = 45 -> 707
      [] angle = 90 -> 1000

\* A knockback vector is kept exactly, as (x / sqrt(den2), y / sqrt(den2)),
\* with what the call raises.  Positions are in 1/10000 px, so the 0.001
\* of the overlap test is 10 and distance < 0.001 is dx*dx + dy*dy < 100.
KnockbackVector(x, y, den2) ==
    [x |-> x, y |-> y, den2 |-> den2,
     raises |-> IF den2 = 0 THEN "ZeroDivisionError" ELSE "none"]

\* AttackState.get_knockback_vector without the fallback for overlapping
\* positions
AttackState_get_knockback_vector_no_fallback(s, attacker_pos, target_pos, facing_left) ==
    IF ~s.is_active \/ s.config = NoConfig THEN KnockbackVector(0, 0, 1)
    ELSE LET force == s.config.knockback_force
             dx == target_pos[1] - attacker_pos[1]
             dy == target_pos[2] - attacker_pos[2]
         IN  KnockbackVector(dx * force, dy * force, dx * dx + dy * dy)

\* AttackState.get_knockback_vector
AttackState_get_knockback_vector(s, attacker_pos, target_pos, facing_left) ==
    IF ~s.is_active \/ s.config = NoConfig THEN KnockbackVector(0, 0, 1)
    ELSE LET force == s.config.knockback_force
             x_dir == IF facing_left THEN -1 ELSE 1
             dx == target_pos[1] - attacker_pos[1]
             dy == target_pos[2] - attacker_pos[2]
         IN  IF s.config.knockback_angle # {}
             THEN LET angle == CHOOSE a \in s.config.knockback_angle : TRUE IN
                  KnockbackVector(Cos1000(angle) * force * x_dir,
                                  -Sin1000(angle) * force, 1000000)
             ELSE IF dx * dx + dy * dy < 100
                  THEN KnockbackVector(10 * force * x_dir, -3 * force, 100)
                  ELSE KnockbackVector(dx * force, dy * force,
                                       dx * dx + dy * dy)

\* the loop of CombatProcessor.process_attack_against_targets from target i
\* on: r is the runtime, the ids of the HitResults so far, and whether the
\* loop has been left by break; the targets are listed by id, and
\* `overlapping` are those whose rect collides with the hitbox
RECURSIVE CombatProcessor__targets_from(_, _, _)
CombatProcessor__targets_from(r, overlapping, i) ==
    IF i \notin Targets THEN r
    ELSE IF r.broke \/ i \notin overlapping
         THEN CombatProcessor__targets_from(r, overlapping, i + 1)
    ELSE IF ~AttackState_try_register_hit_ret(r.attack_state, i)
         THEN CombatProcessor__targets_from(
                [r EXCEPT !.attack_state = AttackState_try_register_hit(@, i)],
                overlapping, i + 1)
    ELSE CombatProcessor__targets_from(
            [attack_state |-> AttackState_try_register_hit(r.attack_state, i),
             results |-> r.results \cup {i},
             broke |-> ~r.attack_state.config.can_hit_multiple],
            overlapping, i + 1)

\* CombatProcessor.process_attack_against_targets
CombatProcessor_process_attack_against_targets(s, overlapping) ==
    IF ~AttackState_is_hit_frame_active(s)
    THEN [attack_state |-> s, results |-> {}, broke |-> FALSE]
    ELSE CombatProcessor__targets_from(
            [attack_state |-> s, results |-> {}, broke |-> FALSE],
            overlapping, 1)

----------------------------------------------------------------------------
(* The AttackState API called in any order on one runtime.  In an "api"   *)
(* run begin is given any config, in a "rematch" run the player's thrust.  *)

\* the targets that have used up max_hits_per_target in the running sequence
Maxed(s) ==
    IF ~s.is_active \/ s.config = NoConfig THEN {}
    ELSE {t \in Targets : s.hit_counts[t] >= s.config.max_hits_per_target}

Begin(config) ==
    /\ scenario = "rematch"
         => config \in {THRUST_ATTACK_CONFIG, NoConfig}
    /\ attack_state' = AttackState_begin(attack_state, config)
    /\ op' = "begin" /\ arg' = 0
    /\ ret' = AttackState_begin_ret(attack_state, config)
    /\ IF config = NoConfig
       THEN UNCHANGED <<true_count, held, dup_hit, dealt, maxed_before>>
       ELSE /\ ObserveNewSequence
            /\ maxed_before' = IF scenario # "rematch" THEN {}
                               ELSE IF attack_state.is_active
                                    THEN Maxed(attack_state)
                                    ELSE maxed_before
    /\ UNCHANGED playerVars

Update(frame) ==
    /\ attack_state' = AttackState_update(attack_state, frame)
    /\ op' = "update" /\ arg' = frame /\ ret' = "none"
    /\ held' = IF attack_state'.current_frame = attack_state.current_frame
               THEN held ELSE NotHeld
    /\ UNCHANGED <<playerVars, true_count, dup_hit, dealt, maxed_before>>

TryRegisterHit(t) ==
    /\ attack_state' = AttackState_try_register_hit(attack_state, t)
    /\ op' = "try_register_hit" /\ arg' = t
    /\ ret' = AttackState_try_register_hit_ret(attack_state, t)
    /\ Observe(attack_state, t)
    /\ UNCHANGED <<playerVars, maxed_before>>

End ==
    /\ attack_state' = AttackState_end(attack_state)
    /\ op' = "end" /\ arg' = 0 /\ ret' = AttackState_end_ret(attack_state)
    /\ ObserveNewSequence
    /\ maxed_before' = IF scenario = "rematch" THEN Maxed(attack_state) ELSE {}
    /\ UNCHANGED <<player, hits_taken, since_hit, grace, air_jumps, scenario,
                   gameVars>>

AttackInit ==
    /\ attack_state = AttackState_init
    /\ player = Player_init
    /\ hits_taken = 0 /\ since_hit = -1 /\ grace = -1 /\ air_jumps = 0
    /\ scenario \in {"api", "rematch"}
    /\ NoGame
    /\ op = "init" /\ arg = 0 /\ ret = "none"
    /\ true_count = NoHits
    /\ held = NotHeld
    /\ dup_hit = FALSE
    /\ dealt = NoHits
    /\ maxed_before = {}
    /\ ambient = NoAmbient
    /\ new_config = NoConfig
    /\ manager = StateManager_init

AttackNext ==
    \/ \E c \in Configs \cup {NoConfig} : Begin(c)
    \/ \E f \in 0..MaxUpdateFrame : Update(f)
    \/ \E t \in Targets : TryRegisterHit(t)
    \/ End

SpecAttack == AttackInit /\ [][AttackNext]_vars


----------------------------------------------------------------------------
(* The Player driven through its API.  A run is one of three scenarios,    *)
(* fixed at the start, that differ in who calls the player:                *)
(*   "move"    update with the movement and jump keys held in any way      *)
(*   "combat"  update with the attack keys, and the combat pass calling    *)
(*             try_register_hit for a target inside the hitbox             *)
(*   "damage"  update with the attack keys, take_damage as the enemy pass  *)
(*             calls it, reset, and jump / attack_thrust / attack_smash    *)
(*             called while player_input itself is locked out              *)
(*   "air_hurt"  update with the right and jump keys (no jump started off  *)
(*             the ground) and take_damage(1.0) called up to MaxAirHits    *)
(*             times; the run ends when the last HURT is over              *)

Scenarios == {"move", "combat", "damage", "air_hurt"}

MoveKeys == {k \in KeySets : ~k.thrust /\ ~k.smash}
FightKeys == {k \in KeySets : ~k.left /\ ~k.right /\ ~k.jump}

ScenarioKeys ==
    IF scenario = "move" THEN MoveKeys
    ELSE IF scenario = "air_hurt" THEN {k \in MoveKeys : ~k.left}
    ELSE FightKeys

NoObservation ==
    UNCHANGED <<attack_state, true_count, held, dup_hit, dealt, maxed_before,
                gameVars>>

\* this player_input call starts a jump off the ground
StartsAirJump(p, keys) ==
    /\ keys.jump /\ p.alt > 0
    /\ ~Player__get_current_config(p).locks_input
    /\ Player_jump_ret(p)

\* time since HURT completed, counted from the tick that completes it
GraceAfterUpdate(p, q) ==
    IF p.state = "HURT" /\ q.state # "HURT" THEN Dt
    ELSE IF grace >= 0 /\ grace < GraceCap THEN Min(GraceCap, grace + Dt)
    ELSE grace

SinceHitAfterUpdate ==
    IF since_hit >= 0 /\ since_hit < SinceHitCap
    THEN Min(SinceHitCap, since_hit + Dt)
    ELSE since_hit

PUpdate(keys) ==
    /\ keys \in ScenarioKeys
    /\ scenario = "air_hurt"
         => (hits_taken < MaxAirHits \/ player.state = "HURT")
    /\ StartsAirJump(player, keys)
         => (air_jumps < MaxAirJumps /\ scenario # "air_hurt")
    /\ player' = Player_update(player, keys)
    /\ op' = "update" /\ arg' = 0 /\ ret' = "none"
    /\ grace' = GraceAfterUpdate(player, player')
    /\ since_hit' = SinceHitAfterUpdate
    /\ air_jumps' = IF player'.alt = 0 THEN 0
                    ELSE IF StartsAirJump(player, keys) THEN air_jumps + 1
                    ELSE air_jumps
    /\ UNCHANGED <<hits_taken, scenario>>
    /\ NoObservation

PTakeDamage(amount) ==
    /\ \/ scenario = "damage" /\ hits_taken < MaxHitsTaken
       \/ scenario = "air_hurt" /\ hits_taken < MaxAirHits /\ amount = 100
    /\ player' = Player_take_damage(player, amount)
    /\ op' = "take_damage" /\ arg' = amount
    /\ ret' = Player_take_damage_ret(player, amount)
    /\ hits_taken' = IF ret' THEN hits_taken + 1 ELSE hits_taken
    /\ since_hit' = IF ret' THEN 0 ELSE since_hit
    /\ grace' = IF ret' THEN -1 ELSE grace
    /\ UNCHANGED <<air_jumps, scenario>>
    /\ NoObservation

PJump ==
    /\ scenario = "damage"
    /\ Player__get_current_config(player).locks_input
    /\ player' = Player_jump(player)
    /\ op' = "jump" /\ arg' = 0 /\ ret' = Player_jump_ret(player)
    /\ UNCHANGED <<hits_taken, since_hit, grace, air_jumps, scenario>>
    /\ NoObservation

PAttackThrust ==
    /\ scenario = "damage"
    /\ Player__get_current_config(player).locks_input
    /\ player' = Player_attack_thrust(player)
    /\ op' = "attack_thrust" /\ arg' = 0
    /\ ret' = Player_attack_thrust_ret(player)
    /\ UNCHANGED <<hits_taken, since_hit, grace, air_jumps, scenario>>
    /\ NoObservation

PAttackSmash ==
    /\ scenario = "damage"
    /\ Player__get_current_config(player).locks_input
    /\ player' = Player_attack_smash(player)
    /\ op' = "attack_smash" /\ arg' = 0
    /\ ret' = Player_attack_smash_ret(player)
    /\ UNCHANGED <<hits_taken, since_hit, grace, air_jumps, scenario>>
    /\ NoObservation

PTryRegisterHit(t) ==
    /\ scenario = "combat"
    /\ player' = Player_try_register_hit(player, t)
    /\ op' = "try_register_hit" /\ arg' = t
    /\ ret' = AttackState_try_register_hit_ret(player.attack_state, t)
    /\ UNCHANGED <<hits_taken, since_hit, grace, air_jumps, scenario>>
    /\ NoObservation

\* game_state.py: _check_game_over calls player.reset() once the player
\* has been dead for _GAME_OVER_DELAY_MS
PReset ==
    /\ scenario = "damage"
    /\ Player_is_dead(player)
    /\ player' = Player_reset(player)
    /\ op' = "reset" /\ arg' = 0 /\ ret' = "none"
    /\ hits_taken' = 0 /\ since_hit' = -1 /\ grace' = -1 /\ air_jumps' = 0
    /\ UNCHANGED scenario
    /\ NoObservation

PlayerInit ==
    /\ attack_state = AttackState_init
    /\ player = Player_init
    /\ hits_taken = 0 /\ since_hit = -1 /\ grace = -1 /\ air_jumps = 0
    /\ scenario \in Scenarios
    /\ NoGame
    /\ op = "init" /\ arg = 0 /\ ret = "none"
    /\ true_count = NoHits
    /\ held = NotHeld
    /\ dup_hit = FALSE
    /\ dealt = NoHits
    /\ maxed_before = {}
    /\ ambient = NoAmbient
    /\ new_config = NoConfig
    /\ manager = StateManager_init

PlayerNext ==
    \/ \E keys \in KeySets : PUpdate(keys)
    \/ \E a \in DamageAmounts : PTakeDamage(a)
    \/ PJump
    \/ PAttackThrust
    \/ PAttackSmash
    \/ \E t \in Targets : PTryRegisterHit(t)
    \/ PReset

SpecPlayer == PlayerInit /\ [][PlayerNext]_vars

----------------------------------------------------------------------------
(* The game loop: every step is one GameState.update.  A run is one of two *)
(* scenarios:                                                              *)
(*   "duel"  the player holds the thrust key in any way, DuelSkeletons     *)
(*           skeletons are spawned one after the other, the next one when  *)
(*           the field is empty                                            *)
(*   "pack"  the player holds no key, PackSkeletons skeletons are spawned  *)
(*   "last_stand"  as "duel" with no key held, the run starting when the   *)
(*           player has taken 99 hits of attack 1 and is left with 1 health *)
(* The first update spawns a skeleton (next_skeleton_spawn_time starts at  *)
(* the construction time), later spawns come at any time.  A skeleton      *)
(* closes in by one distance class per tick and stays in melee range; the  *)
(* player stays on the ground.                                             *)

GameScenarios == {"duel", "pack", "last_stand"}

\* both skeletons of a "brawl" run stand next to the player
BrawlOn ==
    \A i \in Targets : game.skeletons[i].present /\ game.distance[i] = "melee"

GameKeys ==
    IF scenario = "duel" THEN {k \in FightKeys : ~k.smash}
    ELSE IF scenario = "brawl" /\ BrawlOn /\ player.state = "IDLE"
         THEN {k \in FightKeys : ~(k.thrust /\ k.smash)}
         ELSE {NoKeys}

SpawnLimit ==
    IF scenario = "pack" THEN PackSkeletons
    ELSE IF scenario = "brawl" THEN BrawlSkeletons
    ELSE DuelSkeletons

Closer(d) == IF d = "far" THEN "detect" ELSE "melee"

\* the skeletons that are on the field have moved since the last tick
Approach(gm) ==
    [gm EXCEPT !.distance =
        [i \in Targets |->
            IF gm.skeletons[i].present THEN Closer(gm.distance[i])
            ELSE gm.distance[i]]]

\* _begin_attack, the only reader of random.random(), runs for skeleton i
DrawsChoice(gm, i) ==
    /\ gm.skeletons[i].present
    /\ gm.skeletons[i].state \in {"IDLE", "CHASE"}
    /\ gm.distance[i] = "melee"

\* what one update takes from outside: the keys held, whether the spawn
\* time has come at its start or by its end, and the outcome of
\* random.random() < 0.5 for every skeleton that draws it
Envs ==
    LET gm == Approach(game)
        free == {i \in Targets : ~game.skeletons[i].present}
        may_spawn == /\ spawned < SpawnLimit
                     /\ IF scenario \in {"pack", "brawl"} THEN free # {}
                        ELSE free = Targets
    IN  { env \in [keys : GameKeys,
                   spawn_at_start : IF spawned = 0 THEN {TRUE}
                                    ELSE IF scenario = "brawl" THEN {may_spawn}
                                    ELSE IF may_spawn THEN BOOLEAN
                                    ELSE {FALSE},
                   spawn_at_end : IF may_spawn /\ scenario # "brawl"
                                  THEN BOOLEAN ELSE {FALSE},
                   choice : [Targets -> BOOLEAN]] :
            /\ ~(env.spawn_at_start /\ env.spawn_at_end)
            /\ \A i \in Targets :
                  ~env.choice[i] => (DrawsChoice(gm, i) /\ scenario # "brawl") }

\* the bookkeeping of one update: mid is the game when the combat
\* resolution starts, after_player the game between the two passes,
\* after_enemies the game after both, post the game the update leaves
TickObserved(env, mid, after_player, after_enemies, post) ==
    LET hit == after_enemies.player # after_player.player
        registered(i) ==
            after_player.player.attack_state.hit_counts[i]
                > mid.player.attack_state.hit_counts[i]
        new(i) == ~game.skeletons[i].present /\ post.skeletons[i].present
    IN
    /\ spawned' = spawned + Cardinality({i \in Targets : new(i)})
    /\ thrust_hits' = [i \in Targets |->
            IF new(i) THEN 0
            ELSE IF registered(i) /\ mid.player.state = "ATTACK_THRUST"
                 THEN thrust_hits[i] + 1 ELSE thrust_hits[i]]
    /\ smash_hits' = [i \in Targets |->
            IF new(i) THEN 0
            ELSE IF registered(i) /\ mid.player.state = "ATTACK_SMASH"
                 THEN smash_hits[i] + 1 ELSE smash_hits[i]]
    /\ hit_due' = [i \in Targets |->
            /\ after_player.skeletons[i].present
            /\ after_player.skeletons[i].state = "ATTACK"
            /\ Skeleton_should_deal_damage_ret(after_player.skeletons[i])
            /\ after_player.distance[i] = "melee"]
    /\ invincible_at_pass' = Player_is_invincible(after_player.player)
    /\ due_at_start' = [i \in Targets |->
            /\ mid.skeletons[i].present
            /\ mid.skeletons[i].state = "ATTACK"
            /\ Skeleton_should_deal_damage_ret(mid.skeletons[i])
            /\ mid.distance[i] = "melee"
            /\ ~Player_is_dead(mid.player)
            /\ ~Player_is_invincible(mid.player)]
    /\ hits_taken' = IF hit THEN hits_taken + 1 ELSE hits_taken
    /\ since_hit' = IF hit THEN 0 ELSE SinceHitAfterUpdate
    /\ grace' = IF hit THEN -1 ELSE GraceAfterUpdate(player, mid.player)

Tick(env) ==
    /\ hits_taken < MaxGameHits \/ Player_is_invincible(player)
    /\ \E g0 \in {WithPlayer(Approach(game), player)} :
       \E mid \in {GameState_update_entities(g0, env)} :
       \E after_player \in {IF Player_is_dead(mid.player) THEN mid
                             ELSE GameState__process_player_attacks(mid)} :
       \E after_enemies \in {IF Player_is_dead(mid.player) THEN mid
                              ELSE GameState__process_enemy_attacks(after_player)} :
       \E post \in {GameState_update(g0, env)} :
          /\ player' = post.player
          /\ game' = WithoutPlayer(post)
          /\ TickObserved(env, mid, after_player, after_enemies, post)
    /\ op' = "tick" /\ arg' = 0 /\ ret' = "none"
    /\ UNCHANGED <<attack_state, true_count, held, dup_hit, dealt,
                   maxed_before, air_jumps, scenario, deals, damages,
                   ambient, new_config, manager>>

GameInit ==
    /\ attack_state = AttackState_init
    /\ scenario \in GameScenarios
    /\ player = IF scenario = "last_stand"
                THEN [GameState_init.player EXCEPT !.health = 1]
                ELSE GameState_init.player
    /\ NoGame
    /\ hits_taken = 0 /\ since_hit = -1 /\ grace = -1 /\ air_jumps = 0
    /\ op = "init" /\ arg = 0 /\ ret = "none"
    /\ true_count = NoHits
    /\ held = NotHeld
    /\ dup_hit = FALSE
    /\ dealt = NoHits
    /\ maxed_before = {}
    /\ ambient = NoAmbient
    /\ new_config = NoConfig
    /\ manager = StateManager_init

GameNext == \E env \in Envs : Tick(env)

SpecGame == GameInit /\ [][GameNext]_vars

\* A "brawl" run of the game loop: two skeletons are spawned one tick after
\* the other and walk up to the player, who holds no key until both stand in
\* melee range and from then on starts a thrust or a smash out of IDLE at
\* will; random.random() draws attack 1 for every skeleton attack.
BrawlInit ==
    /\ attack_state = AttackState_init
    /\ scenario = "brawl"
    /\ player = GameState_init.player
    /\ NoGame
    /\ hits_taken = 0 /\ since_hit = -1 /\ grace = -1 /\ air_jumps = 0
    /\ op = "init" /\ arg = 0 /\ ret = "none"
    /\ true_count = NoHits
    /\ held = NotHeld
    /\ dup_hit = FALSE
    /\ dealt = NoHits
    /\ maxed_before = {}
    /\ ambient = NoAmbient
    /\ new_config = NoConfig
    /\ manager = StateManager_init

SpecBrawl == BrawlInit /\ [][GameNext]_vars

----------------------------------------------------------------------------
(* One skeleton driven by its callers in any order: obstacle_group.update, *)
(* the enemies-to-player pass of the combat resolution against a player    *)
(* who is either fresh or in HURT, and a hit of the player's thrust.  The  *)
(* player moves by one distance class per update at most.                  *)

\* the players the pass is run against
PassPlayers == {Player_init, Player_take_damage(Player_init, 100)}

Adjacent(d, e) == d = e \/ d = "detect" \/ e = "detect"

NoPlayerObservation ==
    UNCHANGED <<attack_state, true_count, held, dup_hit, dealt, maxed_before,
                hits_taken, since_hit, grace, air_jumps, scenario, spawned, thrust_hits,
                smash_hits, hit_due, invincible_at_pass, due_at_start,
                ambient, new_config, manager>>

SkUpdate(distance, choice) ==
    /\ game.skeletons[1].present
    /\ Adjacent(game.distance[1], distance)
    /\ choice \/ DrawsChoice([game EXCEPT !.distance[1] = distance], 1)
    /\ LET s == Skeleton_update(game.skeletons[1], distance, choice) IN
       /\ game' = [game EXCEPT !.skeletons[1] = s, !.distance[1] = distance]
       /\ IF s.state = "ATTACK" /\ game.skeletons[1].state # "ATTACK"
          THEN deals' = 0 /\ damages' = 0
          ELSE UNCHANGED <<deals, damages>>
    /\ op' = "update" /\ arg' = 0 /\ ret' = "none"
    /\ UNCHANGED player
    /\ NoPlayerObservation

SkPass(p) ==
    /\ game.skeletons[1].present
    /\ LET g == WithPlayer(game, p)
           post == GameState__process_enemy_attacks(g)
           s == game.skeletons[1]
       IN
       /\ game' = WithoutPlayer(post)
       /\ player' = post.player
       /\ deals' = IF /\ ~Player_is_invincible(p)
                      /\ s.state = "ATTACK"
                      /\ Skeleton_should_deal_damage_ret(s)
                   THEN deals + 1 ELSE deals
       /\ damages' = IF post.player # p THEN damages + 1 ELSE damages
    /\ op' = "pass" /\ arg' = 0 /\ ret' = "none"
    /\ NoPlayerObservation

\* the amounts take_damage is tried with on every skeleton the runs reach:
\* none, the thrust hit, the two smash hits, a whole life
StruckAmounts == {0, 750, 1250, skeleton_max_health}

SkStruck ==
    /\ game.skeletons[1].present
    /\ game.skeletons[1].health > skeleton_max_health - MaxStruck * 750
    /\ game' = [game EXCEPT !.skeletons[1] = Skeleton_take_damage(@, 750)]
    /\ op' = "take_damage" /\ arg' = 750 /\ ret' = "none"
    /\ UNCHANGED <<player, deals, damages>>
    /\ NoPlayerObservation

SkeletonInit ==
    /\ attack_state = AttackState_init
    /\ player = Player_init
    /\ hits_taken = 0 /\ since_hit = -1 /\ grace = -1 /\ air_jumps = 0
    /\ scenario = "skeleton"
    /\ game = WithoutPlayer(GameState_spawn_skeleton(GameState_init))
    /\ spawned = 1
    /\ thrust_hits = NoHits /\ smash_hits = NoHits
    /\ hit_due = NotHeld /\ invincible_at_pass = FALSE
    /\ due_at_start = NotHeld
    /\ deals = 0 /\ damages = 0
    /\ op = "init" /\ arg = 0 /\ ret = "none"
    /\ true_count = NoHits
    /\ held = NotHeld
    /\ dup_hit = FALSE
    /\ dealt = NoHits
    /\ maxed_before = {}
    /\ ambient = NoAmbient
    /\ new_config = NoConfig
    /\ manager = StateManager_init

SkeletonNext ==
    \/ \E d \in Distances, choice \in BOOLEAN : SkUpdate(d, choice)
    \/ \E p \in PassPlayers : SkPass(p)
    \/ SkStruck

SpecSkeleton == SkeletonInit /\ [][SkeletonNext]_vars

----------------------------------------------------------------------------
(* Properties of the hit registration (SpecAttack) *)

----------------------------------------------------------------------------
(* The Player under repeated update ticks: update is called again and     *)
(* again (the game loop calls it once per frame), with the thrust and     *)
(* smash keys held in any way, and the combat pass may call                *)
(* try_register_hit for any target between two updates.  The run starts    *)
(* with the player as constructed, or in the HURT that a first             *)
(* take_damage(1.0) gives; in that run the keys stay released (HURT locks   *)
(* the input).                                                             *)

LiveKeys == FightKeys

LUpdate(keys) ==
    /\ keys \in LiveKeys
    /\ hits_taken > 0 => keys = NoKeys
    /\ player' = Player_update(player, keys)
    /\ op' = "update" /\ arg' = 0 /\ ret' = "none"
    /\ UNCHANGED <<hits_taken, since_hit, grace, air_jumps, scenario>>
    /\ NoObservation

\* (ret is kept a string in these runs: the fairness condition makes TLC
\* compare its values across steps)
LTryRegisterHit(t) ==
    /\ player' = Player_try_register_hit(player, t)
    /\ op' = "try_register_hit" /\ arg' = t
    /\ ret' = IF AttackState_try_register_hit_ret(player.attack_state, t)
              THEN "True" ELSE "False"
    /\ UNCHANGED <<hits_taken, since_hit, grace, air_jumps, scenario>>
    /\ NoObservation

LiveInit ==
    /\ attack_state = AttackState_init
    /\ player \in PassPlayers
    /\ hits_taken = IF player.state = "HURT" THEN 1 ELSE 0
    /\ since_hit = -1 /\ grace = -1 /\ air_jumps = 0
    /\ scenario = "live"
    /\ NoGame
    /\ op = "init" /\ arg = 0 /\ ret = "none"
    /\ true_count = NoHits
    /\ held = NotHeld
    /\ dup_hit = FALSE
    /\ dealt = NoHits
    /\ maxed_before = {}
    /\ ambient = NoAmbient
    /\ new_config = NoConfig
    /\ manager = StateManager_init

LiveUpdate == \E keys \in KeySets : LUpdate(keys)

LiveNext ==
    \/ LiveUpdate
    \/ \E t \in Targets : LTryRegisterHit(t)

\* the game loop never stops calling update (what an update can change of
\* the variables: the player, and the operation called last)
SpecLive == LiveInit /\ [][LiveNext]_vars /\ WF_<<player, op>>(LiveUpdate)

----------------------------------------------------------------------------
(* One skeleton of obstacle_group under repeated update ticks: the group   *)
(* updates it every frame as long as it is a member, the player stands at  *)
(* any distance and moves between two updates, and the player's hits call  *)
(* take_damage(7.5) at any moment.                                         *)

DUpdate(distance, choice) ==
    /\ game.skeletons[1].present
    /\ Adjacent(game.distance[1], distance)
    /\ choice \/ DrawsChoice([game EXCEPT !.distance[1] = distance], 1)
    /\ game' = [game EXCEPT
                  !.skeletons[1] = Skeleton_update(@, distance, choice),
                  !.distance[1] = distance]
    /\ op' = "update" /\ arg' = 0 /\ ret' = "none"
    /\ UNCHANGED <<player, deals, damages>>
    /\ NoPlayerObservation

DStruck ==
    /\ game.skeletons[1].present
    /\ game' = [game EXCEPT !.skeletons[1] = Skeleton_take_damage(@, 750)]
    /\ op' = "take_damage" /\ arg' = 750 /\ ret' = "none"
    /\ UNCHANGED <<player, deals, damages>>
    /\ NoPlayerObservation

DyingInit ==
    /\ attack_state = AttackState_init
    /\ player = Player_init
    /\ hits_taken = 0 /\ since_hit = -1 /\ grace = -1 /\ air_jumps = 0
    /\ scenario = "dying"
    /\ game = WithoutPlayer(GameState_spawn_skeleton(GameState_init))
    /\ spawned = 1
    /\ thrust_hits = NoHits /\ smash_hits = NoHits
    /\ hit_due = NotHeld /\ invincible_at_pass = FALSE
    /\ due_at_start = NotHeld
    /\ deals = 0 /\ damages = 0
    /\ op = "init" /\ arg = 0 /\ ret = "none"
    /\ true_count = NoHits
    /\ held = NotHeld
    /\ dup_hit = FALSE
    /\ dealt = NoHits
    /\ maxed_before = {}
    /\ ambient = NoAmbient
    /\ new_config = NoConfig
    /\ manager = StateManager_init

DyingUpdate == \E d \in Distances, choice \in BOOLEAN : DUpdate(d, choice)

DyingNext ==
    \/ DyingUpdate
    \/ DStruck

\* obstacle_group.update is called in every GameState.update
SpecDying == DyingInit /\ [][DyingNext]_vars /\ WF_vars(DyingUpdate)

----------------------------------------------------------------------------
(* One scripted enemy under StoryState.update: every step is one           *)
(* update(dt) of the instance, with dt 50 or 100 ms.                       *)

AmbientUpdate(dt, exact) ==
    /\ ambient' = Ambient_update(ambient, dt, exact)
    /\ op' = "update" /\ arg' = dt /\ ret' = "none"
    /\ UNCHANGED <<attack_state, true_count, held, dup_hit, dealt,
                   maxed_before, player, hits_taken, since_hit, grace,
                   air_jumps, scenario, game, spawned, thrust_hits,
                   smash_hits, hit_due, invincible_at_pass, due_at_start,
                   deals, damages, new_config, manager>>

AmbientInit ==
    /\ attack_state = AttackState_init
    /\ player = Player_init
    /\ hits_taken = 0 /\ since_hit = -1 /\ grace = -1 /\ air_jumps = 0
    /\ scenario = "story"
    /\ NoGame
    /\ op = "init" /\ arg = 0 /\ ret = "none"
    /\ true_count = NoHits
    /\ held = NotHeld
    /\ dup_hit = FALSE
    /\ dealt = NoHits
    /\ maxed_before = {}
    /\ \E kind \in AmbientKinds, start_delay \in AmbientDelays :
          ambient = Ambient_init(kind, start_delay)
    /\ new_config = NoConfig
    /\ manager = StateManager_init

AmbientNext ==
    \E dt \in AmbientDts, exact \in BOOLEAN : AmbientUpdate(dt, exact)

SpecAmbient == AmbientInit /\ [][AmbientNext]_vars

\* The same enemy under repeated updates for as long as the story screen
\* is up.  In a "story_frames" run every dt is 100 ms; in a "story_short"
\* run the dt of an update in EXIT may also be AmbientShortDt ms, for which
\* speed * dt_sec is 0.8 px for the Goblin and the GreenMonster and 1.0 px
\* for the Bat.
AmbientShortDt == 4

AmbientLiveDts ==
    IF scenario = "story_short" /\ ambient.state = "EXIT"
    THEN {AmbientShortDt, 100}
    ELSE {100}

AmbientLiveInit ==
    /\ attack_state = AttackState_init
    /\ player = Player_init
    /\ hits_taken = 0 /\ since_hit = -1 /\ grace = -1 /\ air_jumps = 0
    /\ scenario \in {"story_frames", "story_short"}
    /\ NoGame
    /\ op = "init" /\ arg = 0 /\ ret = "none"
    /\ true_count = NoHits
    /\ held = NotHeld
    /\ dup_hit = FALSE
    /\ dealt = NoHits
    /\ maxed_before = {}
    /\ \E kind \in AmbientKinds : ambient = Ambient_init(kind, 0)
    /\ new_config = NoConfig
    /\ manager = StateManager_init

AmbientLiveNext ==
    \E dt \in AmbientLiveDts, exact \in BOOLEAN : AmbientUpdate(dt, exact)

\* StoryState.update runs on every frame
SpecAmbientLive ==
    AmbientLiveInit /\ [][AmbientLiveNext]_vars /\ WF_vars(AmbientLiveNext)

----------------------------------------------------------------------------
(* The skeleton population under GameState.update.  obstacle_group has a   *)
(* slot more than max_skeletons, so a spawn beyond the limit has a place   *)
(* to go.  One step is one update: spawn_enemies when the spawn time has   *)
(* come, obstacle_group.update, the hits of the combat passes, then        *)
(* _manage_skeleton_spawns when the spawn time has come by then.  The      *)
(* player stands far from the skeletons and is alive; a skeleton out of    *)
(* reach idles, and the frame of its idle animation, which is only drawn,  *)
(* is left where it is.  take_damage arrives with a lethal amount on any   *)
(* of the skeletons at once, when no skeleton is in its death animation.   *)

HordeSlots == 1..(max_skeletons + 1)

\* Skeleton.update of a skeleton the player is far from
Horde_update(s) ==
    IF s.present /\ s.state # "IDLE" THEN Skeleton_update(s, "far", TRUE)
    ELSE s

HordeEnvs ==
    LET calm == \A i \in HordeSlots : game.skeletons[i].state # "DEATH"
                                        \/ ~game.skeletons[i].present
    IN  [spawn_at_start : BOOLEAN, spawn_at_end : BOOLEAN,
         struck : IF calm
                  THEN SUBSET {i \in HordeSlots : game.skeletons[i].present}
                  ELSE {{}}]

\* GameState.update as far as obstacle_group goes.  spawn_enemies leaves
\* next_skeleton_spawn_time alone when it spawns nothing, so a spawn time
\* that had come at the start has come at the end as well; after a spawn
\* the next one is skeleton_respawn_delay away
Horde_tick(g, env) ==
    LET g1 == IF env.spawn_at_start THEN GameState__manage_skeleton_spawns(g)
              ELSE g
        g2 == [g1 EXCEPT !.skeletons =
                  [i \in HordeSlots |-> Horde_update(g1.skeletons[i])]]
        g3 == [g2 EXCEPT !.skeletons =
                  [i \in HordeSlots |->
                      IF i \in env.struck /\ g2.skeletons[i].present
                      THEN Skeleton_take_damage(g2.skeletons[i],
                                                skeleton_max_health)
                      ELSE g2.skeletons[i]]]
        due == IF g1 # g THEN FALSE
               ELSE env.spawn_at_start \/ env.spawn_at_end
    IN  IF due THEN GameState__manage_skeleton_spawns(g3) ELSE g3

\* arg is the pair of spawn times that had come, ret the number of
\* skeletons the update has spawned
HTick(env) ==
    LET g0 == WithPlayer(game, player)
        post == Horde_tick(g0, env)
        g1 == IF env.spawn_at_start THEN GameState__manage_skeleton_spawns(g0)
              ELSE g0
    IN  /\ game' = WithoutPlayer(post)
        /\ op' = "tick"
        /\ arg' = <<env.spawn_at_start, env.spawn_at_end>>
        /\ ret' = (IF g1 # g0 THEN 1 ELSE 0)
                    + (IF GameState_current_skeletons(post)
                            > GameState_current_skeletons(
                                [g1 EXCEPT !.skeletons =
                                   [i \in HordeSlots |->
                                       Horde_update(g1.skeletons[i])]])
                       THEN 1 ELSE 0)
        /\ UNCHANGED <<player, deals, damages>>
        /\ NoPlayerObservation

HordeInit ==
    /\ attack_state = AttackState_init
    /\ player = Player_init
    /\ hits_taken = 0 /\ since_hit = -1 /\ grace = -1 /\ air_jumps = 0
    /\ scenario = "horde"
    /\ game = [WithoutPlayer(GameState_init) EXCEPT
                  !.skeletons = [i \in HordeSlots |-> NoSkeleton],
                  !.distance = [i \in HordeSlots |-> "far"]]
    /\ spawned = 0
    /\ thrust_hits = NoHits /\ smash_hits = NoHits
    /\ hit_due = NotHeld /\ invincible_at_pass = FALSE
    /\ due_at_start = NotHeld
    /\ deals = 0 /\ damages = 0
    /\ op = "init" /\ arg = <<FALSE, FALSE>> /\ ret = 0
    /\ true_count = NoHits
    /\ held = NotHeld
    /\ dup_hit = FALSE
    /\ dealt = NoHits
    /\ maxed_before = {}
    /\ ambient = NoAmbient
    /\ new_config = NoConfig
    /\ manager = StateManager_init

HordeNext == \E env \in HordeEnvs : HTick(env)

SpecHorde == HordeInit /\ [][HordeNext]_vars

----------------------------------------------------------------------------
(* A StateManager and three State objects: push, pop and set are called in *)
(* any order with any of the objects, one already on the stack included;   *)
(* push is called on a stack of fewer than MaxStack states.                *)

MaxStack == 3

ManagerRest ==
    UNCHANGED <<attack_state, true_count, held, dup_hit, dealt, maxed_before,
                player, hits_taken, since_hit, grace, air_jumps, scenario,
                game, spawned, thrust_hits, smash_hits, hit_due,
                invincible_at_pass, due_at_start, deals, damages, ambient,
                new_config>>

MPush(state) ==
    /\ Len(manager.stack) < MaxStack
    /\ manager' = StateManager_push(manager, state)
    /\ op' = "push" /\ arg' = state /\ ret' = "none"
    /\ ManagerRest

MPop ==
    /\ manager' = StateManager_pop(manager)
    /\ op' = "pop" /\ arg' = "none" /\ ret' = "none"
    /\ ManagerRest

MSet(state) ==
    /\ manager' = StateManager_set(manager, state)
    /\ op' = "set" /\ arg' = state /\ ret' = "none"
    /\ ManagerRest

ManagerInit ==
    /\ attack_state = AttackState_init
    /\ player = Player_init
    /\ hits_taken = 0 /\ since_hit = -1 /\ grace = -1 /\ air_jumps = 0
    /\ scenario = "states"
    /\ NoGame
    /\ op = "init" /\ arg = "none" /\ ret = "none"
    /\ true_count = NoHits
    /\ held = NotHeld
    /\ dup_hit = FALSE
    /\ dealt = NoHits
    /\ maxed_before = {}
    /\ ambient = NoAmbient
    /\ new_config = NoConfig
    /\ manager = StateManager_init

ManagerNext ==
    \/ \E state \in StateObjects : MPush(state)
    \/ MPop
    \/ \E state \in StateObjects : MSet(state)

SpecManager == ManagerInit /\ [][ManagerNext]_vars

----------------------------------------------------------------------------
(* AttackConfig instances from their construction on.  A caller constructs *)
(* configs from any arguments and hands the latest one to begin of an      *)
(* AttackState runtime, on which the API is called in any order ("runtime" *)
(* run), or a Player is updated under any keys while configs are           *)
(* constructed ("player" run; the Player begins its own class constants).  *)

\* the arguments of AttackConfig(...): base_damage and knockback_force in
\* hundredths, the other fields as the hit registration needs them
ConfigArgs ==
    { [name |-> "GENERIC", hit_frames |-> {1}, base_damage |-> bd,
       knockback_force |-> kf, knockback_angle |-> {},
       hit_stop_frames |-> 1, can_hit_multiple |-> TRUE,
       max_hits_per_target |-> k, frame_damage_modifiers |-> <<>>] :
         bd \in {-100, 0, 1000},
         kf \in {-100, 0, 500},
         k \in {0, 1, 2} }

\* the values AttackState.update is given in these runs
ConfigFrames == {0, 1}

\* the AttackConfig instances something refers to
ExistingConfigs ==
    {new_config, attack_state.config, player.attack_state.config,
     THRUST_ATTACK_CONFIG, SMASH_ATTACK_CONFIG} \ {NoConfig}

\* what a step of these runs leaves alone besides the objects it names
ConfigRest ==
    UNCHANGED <<true_count, held, dup_hit, dealt, maxed_before, hits_taken,
                since_hit, grace, air_jumps, scenario, game, spawned,
                thrust_hits, smash_hits, hit_due, invincible_at_pass,
                due_at_start, deals, damages, ambient, manager>>

\* AttackConfig(...): __post_init__ raises, or the instance is returned
CConstruct(c) ==
    /\ op' = "AttackConfig" /\ arg' = 0
    /\ ret' = AttackConfig__post_init__(c)
    /\ new_config' = IF AttackConfig__post_init__(c) = "none" THEN c
                     ELSE new_config
    /\ UNCHANGED <<attack_state, player>>
    /\ ConfigRest

CBegin ==
    /\ scenario = "runtime"
    /\ attack_state' = AttackState_begin(attack_state, new_config)
    /\ op' = "begin" /\ arg' = 0
    /\ ret' = AttackState_begin_ret(attack_state, new_config)
    /\ UNCHANGED <<player, new_config>>
    /\ ConfigRest

CUpdate(frame) ==
    /\ scenario = "runtime"
    /\ attack_state' = AttackState_update(attack_state, frame)
    /\ op' = "update" /\ arg' = frame /\ ret' = "none"
    /\ UNCHANGED <<player, new_config>>
    /\ ConfigRest

CTryRegisterHit(t) ==
    /\ scenario = "runtime"
    /\ attack_state' = AttackState_try_register_hit(attack_state, t)
    /\ op' = "try_register_hit" /\ arg' = t
    /\ ret' = IF AttackState_try_register_hit_ret(attack_state, t)
              THEN "True" ELSE "False"
    /\ UNCHANGED <<player, new_config>>
    /\ ConfigRest

CEnd ==
    /\ scenario = "runtime"
    /\ attack_state' = AttackState_end(attack_state)
    /\ op' = "end" /\ arg' = 0 /\ ret' = AttackState_end_ret(attack_state)
    /\ UNCHANGED <<player, new_config>>
    /\ ConfigRest

CPlayerUpdate(keys) ==
    /\ scenario = "player"
    /\ player' = Player_update(player, keys)
    /\ op' = "Player.update" /\ arg' = 0 /\ ret' = "none"
    /\ UNCHANGED <<attack_state, new_config>>
    /\ ConfigRest

CPlayerTryRegisterHit(t) ==
    /\ scenario = "player"
    /\ player' = Player_try_register_hit(player, t)
    /\ op' = "Player.try_register_hit" /\ arg' = t
    /\ ret' = IF AttackState_try_register_hit_ret(player.attack_state, t)
              THEN "True" ELSE "False"
    /\ UNCHANGED <<attack_state, new_config>>
    /\ ConfigRest

ConfigInit ==
    /\ attack_state = AttackState_init
    /\ player = Player_init
    /\ hits_taken = 0 /\ since_hit = -1 /\ grace = -1 /\ air_jumps = 0
    /\ scenario \in {"runtime", "player"}
    /\ NoGame
    /\ op = "init" /\ arg = 0 /\ ret = "none"
    /\ true_count = NoHits
    /\ held = NotHeld
    /\ dup_hit = FALSE
    /\ dealt = NoHits
    /\ maxed_before = {}
    /\ ambient = NoAmbient
    /\ new_config = NoConfig
    /\ manager = StateManager_init

ConfigNext ==
    \/ \E c \in ConfigArgs : CConstruct(c)
    \/ CBegin
    \/ \E f \in ConfigFrames : CUpdate(f)
    \/ \E t \in Targets : CTryRegisterHit(t)
    \/ CEnd
    \/ \E keys \in FightKeys : CPlayerUpdate(keys)
    \/ \E t \in Targets : CPlayerTryRegisterHit(t)

SpecConfig == ConfigInit /\ [][ConfigNext]_vars

----------------------------------------------------------------------------
(* get_knockback_vector called on a runtime between begin and end, with    *)
(* any valid config and the attacker and the target at, next to, or away   *)
(* from each other.                                                        *)

\* the configs of these runs: knockback_force 0, 5.0 or 8.0, the angle None
\* or one of four, and the player's two
KnockbackConfigs ==
    { c \in { [THRUST_ATTACK_CONFIG EXCEPT !.name = "GENERIC",
                                           !.knockback_force = kf,
                                           !.knockback_angle = ka] :
                 kf \in {-100, 0, 500, 800},
                 ka \in {{}, {0}, {30}, {45}, {90}} } :
        AttackConfig__post_init__(c) = "none" }
    \cup {THRUST_ATTACK_CONFIG, SMASH_ATTACK_CONFIG}

\* coordinates in 1/10000 px: 0, 0.0005, 0.001 and 0.03
KnockbackCoords == {0, 5, 10, 300}

KnockbackPositions == KnockbackCoords \X KnockbackCoords

KnockbackRest ==
    UNCHANGED <<true_count, held, dup_hit, dealt, maxed_before, playerVars>>

KBegin(c) ==
    /\ attack_state' = AttackState_begin(attack_state, c)
    /\ op' = "begin" /\ arg' = <<>> /\ ret' = KnockbackVector(0, 0, 1)
    /\ KnockbackRest

KEnd ==
    /\ attack_state' = AttackState_end(attack_state)
    /\ op' = "end" /\ arg' = <<>> /\ ret' = KnockbackVector(0, 0, 1)
    /\ KnockbackRest

KGetKnockbackVector(attacker_pos, target_pos, facing_left) ==
    /\ op' = "get_knockback_vector"
    /\ arg' = <<attacker_pos, target_pos, facing_left>>
    /\ ret' = AttackState_get_knockback_vector(attack_state, attacker_pos,
                                               target_pos, facing_left)
    /\ UNCHANGED attack_state
    /\ KnockbackRest

KnockbackInit ==
    /\ attack_state = AttackState_init
    /\ player = Player_init
    /\ hits_taken = 0 /\ since_hit = -1 /\ grace = -1 /\ air_jumps = 0
    /\ scenario = "knockback"
    /\ NoGame
    /\ op = "init" /\ arg = <<>> /\ ret = KnockbackVector(0, 0, 1)
    /\ true_count = NoHits
    /\ held = NotHeld
    /\ dup_hit = FALSE
    /\ dealt = NoHits
    /\ maxed_before = {}
    /\ ambient = NoAmbient
    /\ new_config = NoConfig
    /\ manager = StateManager_init

KnockbackNext ==
    \/ \E c \in KnockbackConfigs : KBegin(c)
    \/ KEnd
    \/ \E a \in {<<0, 0>>, <<10, 300>>}, t \in KnockbackPositions,
          f \in BOOLEAN : KGetKnockbackVector(a, t, f)

SpecKnockback == KnockbackInit /\ [][KnockbackNext]_vars

----------------------------------------------------------------------------
\* C1: in one begin...end sequence try_register_hit(t) returns True at most
\* max_hits_per_target times for each target t, and never twice for the same
\* target while current_frame holds one value.
C1_HitsPerTargetBounded ==
    /\ \A t \in Targets :
          true_count[t] <= attack_state.config.max_hits_per_target
    /\ ~dup_hit

\* a target that has its k = 2 hits is refused on a further active hit frame
C1_Witness ==
    /\ op = "try_register_hit" /\ ret = FALSE
    /\ AttackState_is_hit_frame_active(attack_state)
    /\ attack_state.config.max_hits_per_target = 2
    /\ true_count[arg] = 2
    /\ ~(attack_state.current_frame \in attack_state.hit_registry[arg])

----------------------------------------------------------------------------
(* Properties of the player state machine (SpecPlayer) *)

\* C2: _can_transition_to(target) is true exactly when target differs from
\* the current state and either target's priority value is lower (higher
\* priority) than the current state's or the current state is
\* interruptible.  So a move to a higher-priority state always succeeds and
\* a move to a lower-priority one only out of an interruptible state.
C2_TransitionRule ==
    \A target \in PlayerStates :
        LET current == player.state
            higher == PlayerState_value[target] < PlayerState_value[current]
        IN  /\ Player__can_transition_to(player, target)
                 <=> (/\ target # current
                      /\ (higher \/ STATE_CONFIGS[current].interruptible))
            /\ higher => Player__can_transition_to(player, target)
            /\ (~higher /\ Player__can_transition_to(player, target))
                 => STATE_CONFIGS[current].interruptible

\* in ATTACK_SMASH (not interruptible) the higher-priority ATTACK_THRUST is
\* let in and the lower-priority JUMP_UP is refused
C2_Witness ==
    /\ player.state = "ATTACK_SMASH"
    /\ op = "update"
    /\ Player__can_transition_to(player, "ATTACK_THRUST")
    /\ ~Player__can_transition_to(player, "JUMP_UP")

\* C3: while hit_stop_remaining > 0, AttackState.update(frame) leaves
\* current_frame unchanged and lowers hit_stop_remaining by exactly one for
\* every frame, and on a tick whose _advance_animation call finds the
\* runtime in hit-stop the player's animation index does not advance.
C3_HitStopFreezes ==
    [][ (op' = "update" /\ player.attack_state.hit_stop_remaining > 0)
        =>
        /\ \A frame \in 0..MaxUpdateFrame :
              AttackState_update(player.attack_state, frame)
                = [player.attack_state EXCEPT !.hit_stop_remaining = @ - 1]
        /\ \A keys \in KeySets :
              LET mid == Player_update_before_animation(player, keys) IN
              (/\ player' = Player_update(player, keys)
               /\ AttackState_is_in_hit_stop(mid.attack_state))
              => /\ player'.animation_index = player.animation_index
                 /\ player'.state = player.state
                 /\ player'.attack_state.current_frame
                      = player.attack_state.current_frame
                 /\ player'.attack_state.hit_stop_remaining
                      = player.attack_state.hit_stop_remaining - 1
      ]_vars

\* two frozen ticks of a smash hit-stop have passed: the index still shows
\* hit frame 3 and the pause has gone from 5 to 3
C3_Witness ==
    /\ op = "update"
    /\ player.state = "ATTACK_SMASH"
    /\ player.attack_state.hit_stop_remaining = 3
    /\ player.attack_state.current_frame = 3
    /\ Player_current_frame_index(player) = 3

\* C4: take_damage on a player that is invincible (in HURT or DEATH, or
\* with the invincibility timer above 0) returns False and leaves health,
\* state, animation index and invincibility timer as they were.
C4_InvincibleIgnoresDamage ==
    [][ (/\ op' = "take_damage"
         /\ \/ player.state \in {"HURT", "DEATH"}
            \/ player.invincibility_timer > 0)
        =>
        /\ ret' = FALSE
        /\ player'.health = player.health
        /\ player'.state = player.state
        /\ player'.animation_index = player.animation_index
        /\ player'.invincibility_timer = player.invincibility_timer
      ]_vars

\* a hit refused by the timer alone: the player is back in IDLE
C4_Witness ==
    /\ op = "take_damage" /\ ret = FALSE
    /\ player.state = "IDLE"
    /\ player.invincibility_timer > 0

\* C6: in DEATH jump(), attack_thrust() and attack_smash() each return
\* False and the state stays DEATH.
C6_DeadRefusesActions ==
    [][ (/\ op' \in {"jump", "attack_thrust", "attack_smash"}
         /\ player.state = "DEATH")
        => (ret' = FALSE /\ player'.state = "DEATH" /\ player' = player)
      ]_vars

C6_Witness ==
    /\ op = "attack_smash" /\ ret = FALSE
    /\ player.state = "DEATH"
    /\ player.health = 0

\* C9: take_damage(amount) on a player that is not invincible returns True
\* and sets health to max(0, health - amount) for every amount >= 0, then
\* enters DEATH if health is 0 and HURT otherwise.
C9_DamageSubtracted ==
    [][ (op' = "take_damage" /\ ~Player_is_invincible(player))
        =>
        /\ ret' = TRUE
        /\ player'.health * 100 = Max(0, player.health * 100 - arg')
        /\ player'.state = IF player'.health = 0 THEN "DEATH" ELSE "HURT"
      ]_vars

\* C10: after a take_damage that succeeded and left health above 0 the
\* player is invincible on every tick of HURT and then for the 0.3 s (18
\* ticks) that start with the tick that completes HURT, and no take_damage
\* succeeds before the HURT length plus 0.3 s have passed since that hit.
C10_HurtThenGrace ==
    [][ LET hurt_length ==
                ((FrameCount["HURT"] * 100)
                    \div STATE_CONFIGS["HURT"].animation_speed) * Dt
            grace_length == 18 * Dt
        IN
        /\ player'.state = "HURT" => Player_is_invincible(player')
        /\ (grace' >= Dt /\ grace' <= grace_length)
             => Player_is_invincible(player')
        /\ (op' = "take_damage" /\ ret' = TRUE)
             => (since_hit = -1 \/ since_hit >= hurt_length + grace_length)
      ]_vars

\* a hit refused on the last tick of the grace period, HURT being over
C10_Witness ==
    /\ op = "take_damage" /\ ret = FALSE
    /\ player.state # "HURT"
    /\ grace = 18 * Dt
    /\ since_hit = 4700

\* C5 as stated: when a skeleton in ATTACK on a hit frame overlaps the
\* player while the player is invincible, the enemies-to-player pass of that
\* update calls the skeleton's register_hit(), so hit_connected is true
\* afterwards, and the player's health is unchanged.
C5_InvincibleStillRegisters ==
    [][ \A i \in Targets :
          (hit_due'[i] /\ invincible_at_pass')
          =>
          /\ game'.skeletons[i].attack_state.hit_connected
          /\ player'.health = player.health
      ]_vars

\* the update C5 speaks of: a skeleton due to hit, the player invincible
C5_Situation ==
    \E i \in Targets :
        /\ hit_due[i] /\ invincible_at_pass
        /\ game.skeletons[i].state = "ATTACK"
        /\ ~game.skeletons[i].attack_state.hit_connected

\* C8: the second of two thrust hits registered on a skeleton spawned with
\* 30 health, no smash hit having been registered on it, leaves its health
\* at 15 and its state HURT, which is neither DEATH nor CHASE nor ATTACK.
C8_TwoThrustsLeaveFifteen ==
    [][ \A i \in Targets :
          (thrust_hits[i] = 1 /\ thrust_hits'[i] = 2 /\ smash_hits'[i] = 0)
          =>
          /\ game'.skeletons[i].health = 1500
          /\ game'.skeletons[i].state = "HURT"
      ]_vars

\* the skeleton right after the second thrust hit
C8_Witness ==
    \E i \in Targets :
        /\ thrust_hits[i] = 2 /\ smash_hits[i] = 0
        /\ game.skeletons[i].present
        /\ game.skeletons[i].health = 1500
        /\ game.skeletons[i].state = "HURT"
        /\ game.skeletons[i].animation_index = 0

\* C8 as stated: after the two registers the health is 15 and the state
\* is CHASE or ATTACK.
C8_StateRemainsChaseOrAttack ==
    [][ \A i \in Targets :
          (thrust_hits[i] = 1 /\ thrust_hits'[i] = 2 /\ smash_hits'[i] = 0)
          =>
          /\ game'.skeletons[i].health = 1500
          /\ game'.skeletons[i].state \in {"CHASE", "ATTACK"}
      ]_vars

\* C11 as stated: between one _begin_attack and the end of that attack
\* should_deal_damage() returns True at most once, for both attack variants
\* and every interleaving of updates and combat passes.
C11_DealsAtMostOnce == deals <= 1

\* the second True of one attack: attack 2 on frame 6, frame 5 having been
\* answered with True while the player was out of reach
C11_SecondDeal ==
    /\ deals = 2 /\ op = "pass"
    /\ game.skeletons[1].state = "ATTACK"
    /\ game.skeletons[1].attack_state.config = Skeleton_ATTACK_2_CONFIG
    /\ game.skeletons[1].attack_state.last_frame_checked = 6

\* C12: between one _begin_attack and the end of that attack (animation
\* complete, or the skeleton hit) the skeleton makes take_damage of the
\* player succeed at most once, whatever player each pass meets.
C12_DamagesAtMostOnce == damages <= 1

\* attack 2 that did its damage on frame 5 meets a fresh player on frame 6
\* and the pass leaves that player alone
C12_Witness ==
    /\ op = "pass" /\ damages = 1
    /\ player = Player_init
    /\ game.distance[1] = "melee"
    /\ game.skeletons[1].state = "ATTACK"
    /\ Skeleton_current_frame_index(game.skeletons[1]) = 6
    /\ game.skeletons[1].attack_state.config = Skeleton_ATTACK_2_CONFIG
    /\ game.skeletons[1].attack_state.last_frame_checked = 5
    /\ game.skeletons[1].attack_state.hit_connected

\* C13 as stated: while the player is in ATTACK_THRUST or ATTACK_SMASH,
\* attack_thrust(), attack_smash() and jump() return False and change
\* nothing, and an attack state is entered only from a state that is not
\* an attack state.
C13_AttackRefusesActions ==
    [][ /\ Player_is_attacking(player)
           => /\ ~Player_attack_thrust_ret(player)
              /\ Player_attack_thrust(player) = player
              /\ ~Player_attack_smash_ret(player)
              /\ Player_attack_smash(player) = player
              /\ ~Player_jump_ret(player)
              /\ Player_jump(player) = player
        /\ (Player_is_attacking(player') /\ player'.state # player.state)
           => ~Player_is_attacking(player)
      ]_vars

\* a smash in progress that attack_thrust() would replace
C13_ThrustCancelsSmash ==
    /\ player.state = "ATTACK_SMASH"
    /\ player.attack_state.hit_counts[1] > 0
    /\ Player_attack_thrust_ret(player)
    /\ Player_attack_thrust(player).state = "ATTACK_THRUST"
    /\ Player_attack_thrust(player).attack_state.hit_counts = NoHits

\* C14 as stated: jump() returns True, entering JUMP_UP, only when the
\* player stands on the ground; in every airborne position it returns
\* False and changes nothing.
C14_JumpOnlyGrounded ==
    /\ Player_jump_ret(player)
         => (player.alt = 0 /\ Player_jump(player).state = "JUMP_UP")
    /\ player.alt > 0
         => (~Player_jump_ret(player) /\ Player_jump(player) = player)

\* a falling player above the ground for whom jump() succeeds
C14_AirJump ==
    /\ player.state = "JUMP_DOWN"
    /\ player.alt > 0
    /\ Player_jump_ret(player)
    /\ Player_jump(player).gravity = JUMP_VELOCITY

\* C15 as stated: in every run of the game loop the player, once in DEATH,
\* is in DEATH after every later update.
C15_DeathIsTerminal ==
    [][ player.state = "DEATH" => player'.state = "DEATH" ]_vars

\* the dead player on the last update before the game-over delay is over
C15_GameOverDue ==
    /\ player.state = "DEATH" /\ player.health = 0
    /\ game.game_over_timer >= GAME_OVER_DELAY_MS * 6

\* C16: while the player is in HURT, jump(), attack_thrust() and
\* attack_smash() are refused and change nothing, and no call changes the
\* state except the update that completes the HURT animation, which
\* leaves the player in IDLE, whatever the height, the vertical velocity
\* and the direction held.
C16_HurtHolds ==
    [][ player.state = "HURT"
        =>
        /\ ~Player_jump_ret(player) /\ Player_jump(player) = player
        /\ ~Player_attack_thrust_ret(player)
        /\ Player_attack_thrust(player) = player
        /\ ~Player_attack_smash_ret(player)
        /\ Player_attack_smash(player) = player
        /\ player'.state # "HURT"
             => /\ op' = "update"
                /\ Player__advance_animation(player).completed
                /\ player'.state = "IDLE"
      ]_vars

\* HURT has just completed above the ground with the right key's direction
\* still set
C16_Witness ==
    /\ op = "update" /\ grace = Dt
    /\ player.state = "IDLE"
    /\ player.alt > 0
    /\ player.direction = 1

\* C17 as stated: the player-to-enemies pass registers no hit against a
\* skeleton that is in DEATH, its death animation still playing, and awards
\* no score while every skeleton on the field is in DEATH.
C17_NoHitOnDeadEnemy ==
    [][ /\ \A i \in Targets :
              (game.skeletons[i].present /\ game.skeletons[i].state = "DEATH")
              => /\ thrust_hits'[i] <= thrust_hits[i]
                 /\ smash_hits'[i] <= smash_hits[i]
        /\ (\A i \in Targets :
              game.skeletons[i].present => game.skeletons[i].state = "DEATH")
           => game'.score <= game.score
      ]_vars

\* a thrust has registered a hit on a skeleton whose death animation plays:
\* the hit is in the registry and the hit-stop runs
C17_HitOnDyingSkeleton ==
    \E i \in Targets :
        /\ game.skeletons[i].present
        /\ game.skeletons[i].state = "DEATH"
        /\ game.skeletons[i].animation_index > 0
        /\ player.state = "ATTACK_THRUST"
        /\ player.attack_state.hit_counts[i] = 1
        /\ player.attack_state.hit_stop_remaining > 0
        /\ thrust_hits[i] = 5

C19_TransitionEndsAttack ==
    [][ LET ended(a) == /\ ~a.is_active
                        /\ a.config = NoConfig
                        /\ a.hit_registry = [t \in Targets |-> {}]
                        /\ a.hit_counts = NoHits
                        /\ a.hit_stop_remaining = 0
        IN
        /\ \A t \in PlayerStates :
              LET q == Player__transition_to(player, t) IN
              /\ q.state = t
              /\ q.animation_index = 0
              /\ q.current_frames = t
              /\ (Player_is_attacking(player) /\ t \notin AttackStates)
                   => (ended(q.attack_state) /\ q.current_attack_config = "None")
        /\ (Player_is_attacking(player) /\ ~Player_is_attacking(player'))
             => /\ ended(player'.attack_state)
                /\ player'.current_attack_config = "None"
        /\ player'.state # player.state
             => /\ player'.current_frames = player'.state
                /\ player'.animation_index
                     \in {0, STATE_CONFIGS[player'.state].animation_speed}
      ]_vars

\* a thrust that has registered its hit and is in hit-stop, which a
\* transition to HURT would end
C19_Witness ==
    /\ player.state = "ATTACK_THRUST"
    /\ player.attack_state.hit_counts[1] = 1
    /\ player.attack_state.hit_stop_remaining > 0
    /\ player.animation_index > 0
    /\ ~Player__transition_to(player, "HURT").attack_state.is_active
    /\ Player__transition_to(player, "HURT").attack_state.hit_counts = NoHits
    /\ Player__transition_to(player, "HURT").attack_state.hit_stop_remaining = 0
    /\ Player__transition_to(player, "HURT").animation_index = 0

\* C20: after begin(config) with a config the runtime is active on a config
\* with current_frame 0, no hit-stop, an empty registry and zero counts,
\* whatever it held before; and a target that had reached
\* max_hits_per_target in the sequence before is never refused on an active
\* hit frame of this sequence while it has no hit in it (a refused try
\* leaves the runtime as it was, so the frame tried is the one held).
C20_BeginResets ==
    /\ (op = "begin" /\ ret = "none")
          => /\ attack_state.is_active
             /\ attack_state.config # NoConfig
             /\ attack_state.current_frame = 0
             /\ attack_state.hit_stop_remaining = 0
             /\ attack_state.hit_registry = [t \in Targets |-> {}]
             /\ attack_state.hit_counts = NoHits
    /\ ( /\ op = "try_register_hit"
         /\ arg \in maxed_before
         /\ true_count[arg] = 0
         /\ AttackState_is_hit_frame_active(attack_state) )
          => ret = TRUE

\* a target that had used up its hits in the sequence before is registered
\* in this one
C20_Witness ==
    /\ op = "try_register_hit" /\ ret = TRUE
    /\ arg \in maxed_before
    /\ true_count[arg] = 1
    /\ attack_state.hit_counts[arg] = 1

\* C21: under repeated update ticks, with any keys and any hit
\* registrations in between, a player in ATTACK_THRUST, ATTACK_SMASH or HURT
\* eventually is in IDLE, RUN, JUMP_UP, JUMP_DOWN or DEATH.
C21_AttackAndHurtEnd ==
    (player.state \in AttackStates \cup {"HURT"})
        ~> (player.state \in {"IDLE", "RUN", "JUMP_UP", "JUMP_DOWN", "DEATH"})

\* a smash that has registered its two hits on every target and is in the
\* hit-stop of the last one, an update having counted it down
C21_Witness ==
    /\ op = "update"
    /\ player.state = "ATTACK_SMASH"
    /\ \A t \in Targets : player.attack_state.hit_counts[t] = 2
    /\ player.attack_state.hit_stop_remaining > 0
    /\ player.attack_state.hit_stop_remaining
          < SMASH_ATTACK_CONFIG.hit_stop_frames

\* C22: the player's attack runtime, when active, has a config, and
\* is_hit_frame_active() is true exactly when the runtime is active,
\* hit_stop_remaining is 0 and current_frame is one of the config's
\* hit_frames; get_current_hitbox returns None exactly when
\* is_hit_frame_active() is false; and when Player.should_deal_damage() is
\* true Player.get_attack_hitbox() is not None.
C22_HitboxWhenHitFrame ==
    LET s == player.attack_state IN
    /\ s.is_active => s.config # NoConfig
    /\ AttackState_is_hit_frame_active(s)
          <=> ( /\ s.is_active
                /\ s.hit_stop_remaining = 0
                /\ s.current_frame \in s.config.hit_frames )
    /\ \A facing_left \in BOOLEAN :
          (AttackState_get_current_hitbox(s, facing_left) = NoRect)
              <=> ~AttackState_is_hit_frame_active(s)
    /\ Player_should_deal_damage(player)
          => Player_get_attack_hitbox(player) # NoRect

\* an update has brought the smash to its hit frame 7 after the hit-stop of
\* a hit on frame 3: damage is due and the hitbox is there
C22_Witness ==
    /\ op = "update"
    /\ player.state = "ATTACK_SMASH"
    /\ player.attack_state.current_frame = 7
    /\ \E t \in Targets : 3 \in player.attack_state.hit_registry[t]
    /\ Player_should_deal_damage(player)
    /\ Player_get_attack_hitbox(player) # NoRect

\* C23: begin(None) raises ValueError and leaves every field of the
\* AttackState as it was, on every runtime the API can produce, inactive or
\* in the middle of an attack.
C23_BeginNoneRejected ==
    /\ AttackState_begin_ret(attack_state, NoConfig) = "ValueError"
    /\ AttackState_begin(attack_state, NoConfig) = attack_state
    /\ (op = "begin" /\ ret = "none") => attack_state.config # NoConfig

\* begin(None) has just raised in the middle of an attack: a hit is
\* registered and its hit-stop is still running
C23_Witness ==
    /\ op = "begin" /\ ret = "ValueError"
    /\ attack_state.is_active
    /\ attack_state.current_frame > 0
    /\ attack_state.hit_stop_remaining > 0
    /\ \E t \in Targets : /\ attack_state.hit_counts[t] > 0
                          /\ true_count[t] > 0

\* C24: on an inactive AttackState (never begun, or ended) end() raises
\* nothing and changes no field, and on every AttackState end() applied
\* twice leaves what end() applied once leaves.
C24_EndIdempotent ==
    LET once == AttackState_end(attack_state) IN
    /\ ~attack_state.is_active
          => /\ AttackState_end_ret(attack_state) = "none"
             /\ once = attack_state
    /\ AttackState_end_ret(once) = "none"
    /\ AttackState_end(once) = once

\* an ended runtime (end() was the last call) that still holds the frame it
\* was ended on, on which end() is called again
C24_Witness ==
    /\ op = "end" /\ ret = "none"
    /\ ~attack_state.is_active
    /\ attack_state.current_frame > 0
    /\ AttackState_end(attack_state) = attack_state

\* C25: Skeleton.take_damage(amount) leaves a skeleton in HURT or DEATH as
\* it is; in any other state it leaves health at max(0, health - amount),
\* the animation index at 0, the attack tracking reset, the state DEATH
\* when that health is 0 and HURT otherwise, and nothing else changed.
C25_TakeDamageEffect ==
    LET s == game.skeletons[1] IN
    \A amount \in StruckAmounts :
        LET t == Skeleton_take_damage(s, amount) IN
        IF s.state \in {"HURT", "DEATH"} THEN t = s
        ELSE /\ t.health = Max(0, s.health - amount)
             /\ t.animation_index = 0
             /\ t.attack_state = SkeletonAttackState_reset
             /\ t.state = IF t.health = 0 THEN "DEATH" ELSE "HURT"
             /\ t.present = s.present
             /\ t.current_frames = s.current_frames

\* the fourth thrust hit has killed the skeleton
C25_Witness ==
    /\ op = "take_damage" /\ arg = 750
    /\ game.skeletons[1].state = "DEATH"
    /\ game.skeletons[1].health = 0
    /\ game.skeletons[1].animation_index = 0
    /\ game.skeletons[1].attack_state = SkeletonAttackState_reset

C27_DeadSkeletonRemoved ==
    /\ [](game.skeletons[1].health = 0 <=> game.skeletons[1].state = "DEATH")
    /\ [](game.skeletons[1].state = "DEATH"
            => [](game.skeletons[1].state = "DEATH"))
    /\ [](game.skeletons[1].present
            <=> ~( /\ game.skeletons[1].state = "DEATH"
                   /\ game.skeletons[1].animation_index
                        >= SkeletonFrameCount["death"] * 100 ))
    /\ (game.skeletons[1].health = 0) ~> ~game.skeletons[1].present

\* the update that ends the death animation has taken the skeleton out of
\* the group
C27_Witness ==
    /\ op = "update"
    /\ game.skeletons[1].state = "DEATH"
    /\ game.skeletons[1].health = 0
    /\ ~game.skeletons[1].present

\* the state changes the script of a scripted enemy of class kind allows
Ambient_edges(kind) ==
    IF kind = "GreenMonster"
    THEN {<<"WAITING", "ENTER">>, <<"ENTER", "IDLE_1">>,
          <<"IDLE_1", "ATTACK_1">>, <<"ATTACK_1", "IDLE_2">>,
          <<"IDLE_2", "ATTACK_2">>, <<"ATTACK_2", "EXIT">>,
          <<"EXIT", "ENTER">>}
    ELSE {<<"WAITING", "ENTER">>, <<"ENTER", "IDLE">>, <<"IDLE", "ATTACK">>,
          <<"ATTACK", "EXIT">>, <<"EXIT", "ENTER">>}

\* C28: an update of a Bat, Goblin or GreenMonster that changes its state
\* changes it along one edge of its script, WAITING -> ENTER -> IDLE ->
\* ATTACK -> EXIT -> ENTER (Bat, Goblin) or WAITING -> ENTER -> IDLE_1 ->
\* ATTACK_1 -> IDLE_2 -> ATTACK_2 -> EXIT -> ENTER (GreenMonster): no update
\* skips a state or goes back, and no update enters WAITING.
C28_ScriptOrder ==
    [][ /\ ambient'.kind = ambient.kind
        /\ ambient'.state # ambient.state
             => <<ambient.state, ambient'.state>> \in Ambient_edges(ambient.kind)
        /\ ambient'.state = "WAITING" => ambient.state = "WAITING" ]_vars

\* a GreenMonster that has left the right edge in EXIT is set back to the
\* left of the screen (rect.right = 0) in ENTER by that update
C28_Witness ==
    /\ op = "update"
    /\ ambient.kind = "GreenMonster"
    /\ ambient.state = "ENTER"
    /\ ambient.x = -AmbientWidth
    /\ ambient.start_delay > 0

\* C29 as stated: on every update that starts with the player's attack in
\* hit-stop both sides are frozen: the attack's current_frame keeps its
\* value, and every skeleton the attack has registered a hit on keeps its
\* state and its animation index.
C29_BothSidesFreeze ==
    [][ \A i \in Targets :
          ( /\ player.state \in AttackStates
            /\ player.attack_state.hit_stop_remaining > 0
            /\ player.attack_state.hit_counts[i] > 0
            /\ game.skeletons[i].present )
          => /\ player'.attack_state.current_frame
                  = player.attack_state.current_frame
             /\ game'.skeletons[i].state = game.skeletons[i].state
             /\ game'.skeletons[i].animation_index
                  = game.skeletons[i].animation_index
      ]_vars

\* one update into the hit-stop of a thrust (3 frames, 2 left, the attack
\* still on its hit frame) the skeleton it hit, put in HURT with its
\* animation index at 0 by take_damage, has moved on in its hurt animation
C29_TargetKeepsAnimating ==
    \E i \in Targets :
        /\ op = "tick"
        /\ player.state = "ATTACK_THRUST"
        /\ player.attack_state.hit_counts[i] = 1
        /\ player.attack_state.hit_stop_remaining
             = THRUST_ATTACK_CONFIG.hit_stop_frames - 1
        /\ player.attack_state.current_frame \in THRUST_ATTACK_CONFIG.hit_frames
        /\ game.skeletons[i].present
        /\ game.skeletons[i].state = "HURT"
        /\ game.skeletons[i].animation_index = ANIM_SPEED_HURT

\* C30: AttackConfig(...) with base_damage < 0, knockback_force < 0 or
\* max_hits_per_target < 1 raises ValueError and constructs nothing; every
\* AttackConfig instance that exists (the latest one constructed, the one a
\* runtime or the Player's runtime holds, the Player's class constants) has
\* base_damage >= 0, knockback_force >= 0 and max_hits_per_target >= 1; and
\* no operation of AttackState or Player changes a config: after it the
\* latest config is what it was, and a runtime refers to the config it
\* referred to, to the one begin was given, or to none.
C30_ConfigValidAndFixed ==
    /\ \A c \in ConfigArgs :
          (c.base_damage < 0 \/ c.knockback_force < 0
             \/ c.max_hits_per_target < 1)
          <=> AttackConfig__post_init__(c) = "ValueError"
    /\ [][ /\ (op' = "AttackConfig" /\ ret' = "ValueError")
                 => new_config' = new_config
           /\ \A c \in ExistingConfigs' : AttackConfig_valid(c)
           /\ op' # "AttackConfig"
                 => /\ new_config' = new_config
                    /\ attack_state'.config
                         \in {attack_state.config, new_config, NoConfig}
                    /\ player'.attack_state.config
                         \in {player.attack_state.config, THRUST_ATTACK_CONFIG,
                              SMASH_ATTACK_CONFIG, NoConfig}
         ]_vars

\* a construction has just been rejected while a runtime is running an
\* attack with an earlier config whose knockback_force is 0, and the latest
\* config is another one
C30_Witness ==
    /\ op = "AttackConfig" /\ ret = "ValueError"
    /\ attack_state.is_active
    /\ attack_state.config \in ConfigArgs
    /\ attack_state.config.knockback_force = 0
    /\ attack_state.hit_counts[1] = 1
    /\ new_config \in ConfigArgs
    /\ new_config # attack_state.config

\* C31 as stated: get_knockback_vector on an active attack with the
\* attacker and the target at the same position raises nothing and returns a
\* vector that is not (0, 0), whatever valid config the attack runs.
C31_NonZeroAtSamePosition ==
    (/\ op = "get_knockback_vector"
     /\ attack_state.is_active
     /\ arg[1] = arg[2])
    => /\ ret.raises = "none"
       /\ ret.x # 0 \/ ret.y # 0

\* C31: get_knockback_vector never divides by zero, and on an active attack
\* with the attacker and the target at the same position the vector it
\* returns is (0, 0) exactly when the config's knockback_force is 0.
C31_NoDivisionByZero ==
    op = "get_knockback_vector"
    => /\ ret.raises = "none"
       /\ ret.den2 > 0
       /\ (attack_state.is_active /\ arg[1] = arg[2])
            => ( (ret.x = 0 /\ ret.y = 0)
                 <=> attack_state.config.knockback_force = 0 )

\* the fallback has answered for a config without an angle: attacker and
\* target at the same position, force 5.0, facing left: (-5.0, -1.5)
C31_Witness ==
    /\ op = "get_knockback_vector"
    /\ attack_state.is_active
    /\ attack_state.config.knockback_angle = {}
    /\ attack_state.config.knockback_force = 500
    /\ arg[1] = arg[2] /\ arg[3]
    /\ ret = KnockbackVector(-5000, -1500, 100)

\* C32 as stated: an update that starts with the player in a state whose
\* config has locks_movement set (ATTACK_THRUST, ATTACK_SMASH, HURT, DEATH)
\* does not move the player horizontally, whatever keys are held and
\* whatever direction was held when the state was entered.
C32_LockedStateStandsStill ==
    [][ (op' = "update" /\ Player__get_current_config(player).locks_movement)
        => player'.dx = 0 ]_vars

\* an update that started in HURT (the hurt animation has advanced, the
\* state still locks movement and input) has moved the player to the right,
\* the direction held when the hit landed
C32_SlidesWhileHurt ==
    /\ op = "update"
    /\ player.state = "HURT"
    /\ player.animation_index >= STATE_CONFIGS["HURT"].animation_speed
    /\ player.direction = 1
    /\ player.dx > 0

\* the targets of `among` that the runtime s, on an active hit frame, has
\* not yet hit on this frame and that are below max_hits_per_target
OpenTargets(s, among) ==
    {t \in among : /\ s.hit_counts[t] < s.config.max_hits_per_target
                   /\ s.current_frame \notin s.hit_registry[t]}

\* C33 as stated: when the combat resolution of a tick finds the player on
\* an active hit frame of a config with can_hit_multiple, the
\* player-to-enemies pass registers a hit on every skeleton in reach that
\* is below its hit limit (and not yet hit on this frame), and
\* CombatProcessor.process_attack_against_targets, called on that runtime
\* with any list of overlapping targets, returns a HitResult for each of
\* them that is below its limit.
C33_EveryTargetInReachIsHit ==
    [][ \A env \in Envs :
          LET g0 == WithPlayer(Approach(game), player)
              mid == GameState_update_entities(g0, env)
              s == mid.player.attack_state
              reach == {i \in Targets : /\ mid.skeletons[i].present
                                        /\ mid.distance[i] = "melee"}
          IN  ( /\ player' = GameState_update(g0, env).player
                /\ ~Player_is_dead(mid.player)
                /\ Player_should_deal_damage(mid.player)
                /\ s.config.can_hit_multiple )
              => /\ \A i \in OpenTargets(s, reach) :
                       GameState__process_player_attacks(mid)
                           .player.attack_state.hit_counts[i]
                         = s.hit_counts[i] + 1
                 /\ \A overlapping \in SUBSET Targets :
                       OpenTargets(s, overlapping) \subseteq
                         CombatProcessor_process_attack_against_targets(
                             s, overlapping).results
      ]_vars

\* both skeletons stood in reach of the thrust's hit frame: the pass has
\* registered the hit on skeleton 1, which started the hit-stop, and has
\* passed over skeleton 2, which is untouched
C33_SecondTargetMissed ==
    /\ op = "tick"
    /\ player.state = "ATTACK_THRUST"
    /\ player.attack_state.hit_stop_remaining
         = THRUST_ATTACK_CONFIG.hit_stop_frames
    /\ player.attack_state.hit_counts = (1 :> 1 @@ 2 :> 0)
    /\ \A i \in Targets : game.skeletons[i].present /\ game.distance[i] = "melee"
    /\ game.skeletons[1].state = "HURT"
    /\ game.skeletons[2].health = skeleton_max_health
    /\ game.skeletons[2].state # "HURT"

\* the ATTACK states of the scripted enemies
AmbientAttacks == {"ATTACK", "ATTACK_1", "ATTACK_2"}

C35_AtMostMaxSkeletons ==
    GameState_current_skeletons(game) <= max_skeletons

\* the limit has refused a spawn on both paths of one update: three
\* skeletons are in the group, one of them in its death animation, the
\* spawn time had come at the start, and the update has spawned nothing
C35_Witness ==
    /\ scenario = "horde"
    /\ op = "tick"
    /\ arg = <<TRUE, TRUE>>
    /\ ret = 0
    /\ GameState_current_skeletons(game) = max_skeletons
    /\ \E i \in HordeSlots : /\ game.skeletons[i].present
                             /\ game.skeletons[i].state = "DEATH"

\* C36: at every tick boundary the player's attack runtime is active
\* exactly when the state is ATTACK_THRUST or ATTACK_SMASH, and then its
\* config is that state's; this holds after update, attack_thrust,
\* attack_smash, jump, take_damage and reset, called in any state reached
C36_AttackRuntimeMatchesState ==
    LET matches(p) ==
            /\ p.attack_state.is_active <=> p.state \in AttackStates
            /\ p.state = "ATTACK_THRUST"
                 => /\ p.attack_state.config = THRUST_ATTACK_CONFIG
                    /\ p.current_attack_config = "THRUST"
            /\ p.state = "ATTACK_SMASH"
                 => /\ p.attack_state.config = SMASH_ATTACK_CONFIG
                    /\ p.current_attack_config = "SMASH"
            /\ p.state \notin AttackStates
                 => /\ p.attack_state.config = NoConfig
                    /\ p.current_attack_config = "None"
    IN  /\ matches(player)
        /\ \A keys \in KeySets : matches(Player_update(player, keys))
        /\ matches(Player_attack_thrust(player))
        /\ matches(Player_attack_smash(player))
        /\ matches(Player_jump(player))
        /\ \A a \in DamageAmounts : matches(Player_take_damage(player, a))
        /\ matches(Player_reset(player))

\* a thrust is running, paused by the hit it has registered on target 1,
\* and a take_damage call now ends it
C36_Witness ==
    /\ player.state = "ATTACK_THRUST"
    /\ player.attack_state.is_active
    /\ player.attack_state.hit_counts[1] > 0
    /\ player.attack_state.hit_stop_remaining > 0
    /\ \E a \in DamageAmounts :
          /\ Player_take_damage(player, a).state = "HURT"
          /\ ~Player_take_damage(player, a).attack_state.is_active

\* C37: after any sequence of player operations 0 <= health <= max_health,
\* and the state is DEATH exactly when health is 0
C37_HealthInRangeDeadAtZero ==
    LET sound(p) ==
            /\ 0 <= p.health /\ p.health <= max_health
            /\ p.state = "DEATH" <=> p.health = 0
    IN  /\ sound(player)
        /\ \A keys \in KeySets : sound(Player_update(player, keys))
        /\ sound(Player_attack_thrust(player))
        /\ sound(Player_attack_smash(player))
        /\ sound(Player_jump(player))
        /\ \A a \in DamageAmounts : sound(Player_take_damage(player, a))
        /\ sound(Player_reset(player))

\* take_damage(150.0) has just killed a player with less health than
\* that, and health stands at 0
C37_Witness ==
    /\ op = "take_damage" /\ arg = 15000 /\ ret = TRUE
    /\ player.health = 0
    /\ player.state = "DEATH"

\* C38 as stated: whenever the player-to-enemies pass of a tick registers
\* a hit on a skeleton (try_register_hit returns True, the hit-stop starts,
\* score is awarded), that skeleton's health goes down by the attack's
\* current damage (to 0 at the least) in the same tick.
C38_RegisteredHitHurts ==
    [][ \A env \in Envs :
          LET g0 == WithPlayer(Approach(game), player)
              mid == GameState_update_entities(g0, env)
              after_player == GameState__process_player_attacks(mid)
              damage == AttackState_get_current_damage(mid.player.attack_state)
          IN  ( /\ player' = GameState_update(g0, env).player
                /\ ~Player_is_dead(mid.player) )
              => \A i \in Targets :
                    after_player.player.attack_state.hit_counts[i]
                        > mid.player.attack_state.hit_counts[i]
                    => /\ after_player.score = mid.score + SCORE_PER_HIT
                       /\ after_player.skeletons[i].health
                            = Max(0, mid.skeletons[i].health - damage)
      ]_vars

\* a skeleton has stayed in the smash's hitbox through frames 3 and 7: both
\* hits are registered and the second has started its hit-stop, score is
\* awarded for both, and the skeleton, in HURT since frame 3, has lost the
\* damage of frame 3 only
C38_SecondSmashHitLost ==
    \E i \in Targets :
        /\ op = "tick"
        /\ player.state = "ATTACK_SMASH"
        /\ player.attack_state.current_frame = 7
        /\ player.attack_state.hit_counts[i] = 2
        /\ player.attack_state.hit_stop_remaining
             = SMASH_ATTACK_CONFIG.hit_stop_frames
        /\ smash_hits[i] = 2 /\ thrust_hits[i] = 0
        /\ game.score >= 2 * SCORE_PER_HIT
        /\ game.skeletons[i].present
        /\ game.skeletons[i].state = "HURT"
        /\ game.skeletons[i].health = skeleton_max_health - 750

\* C39 as stated: if at the combat pass of a tick a skeleton is in ATTACK
\* on one of its hit frames with no hit connected in this attack, the
\* player is neither invincible nor dead and the rects overlap, then the
\* pass has the player take that attack's damage, also when the overlap
\* has started on a later tick of the hit frame than its first.
C39_OverlapOnHitFrameDamages ==
    \A p \in PassPlayers :
        LET skeleton == game.skeletons[1]
            g == WithPlayer(game, p)
        IN  ( /\ scenario = "skeleton"
              /\ skeleton.present
              /\ skeleton.state = "ATTACK"
              /\ Skeleton_is_in_hit_frame(skeleton)
              /\ ~skeleton.attack_state.hit_connected
              /\ ~Player_is_invincible(p) /\ ~Player_is_dead(p)
              /\ game.distance[1] = "melee" )
            => /\ GameState__process_enemy_attacks(g).player
                    = Player_take_damage(
                          p, Skeleton_get_current_attack_damage(skeleton))
               /\ GameState__process_enemy_attacks(g).player.state
                    \in {"HURT", "DEATH"}

\* the pass of an earlier tick of hit frame 6 of attack 1 found the player
\* out of reach; an update later, still on frame 6, the player stands in
\* the skeleton's rect, and the pass leaves a player fresh from
\* construction as they are
C39_LateOverlapSpared ==
    /\ scenario = "skeleton"
    /\ op = "update"
    /\ game.distance[1] = "melee"
    /\ game.skeletons[1].state = "ATTACK"
    /\ game.skeletons[1].attack_state.config = Skeleton_ATTACK_1_CONFIG
    /\ Skeleton_current_frame_index(game.skeletons[1]) = 6
    /\ game.skeletons[1].attack_state.last_frame_checked = 6
    /\ ~game.skeletons[1].attack_state.hit_connected
    /\ GameState__process_enemy_attacks(WithPlayer(game, Player_init)).player
         = Player_init

\* C40 as stated: for every State object and every sequence of push, pop
\* and set calls, on_enter and on_exit alternate strictly, on_enter first,
\* and the object has been entered more recently than exited exactly when
\* it is the top of the stack.
C40_CallbacksAlternate ==
    \A s \in StateObjects :
        /\ ~manager.twice[s]
        /\ manager.last[s] = "on_enter"
             <=> /\ manager.stack # <<>>
                 /\ manager.stack[Len(manager.stack)] = s

\* push(a), push(b), then set(c): a, exited when b was pushed over it, has
\* got on_exit again from the loop of set
C40_ExitedTwice ==
    /\ op = "set" /\ arg = "c"
    /\ manager.stack = <<"c">>
    /\ manager.twice["a"] /\ manager.last["a"] = "on_exit"
    /\ ~manager.twice["b"] /\ manager.last["b"] = "on_exit"
    /\ ~manager.twice["c"]

====
